---------------------------- MODULE Spec2Model ----------------------------
(***************************************************************************)
(* Model of the diabetes-assistant dosing engine: the dosing calculator,   *)
(* the adaptive tuner, the legacy quadrant conversion, the in-memory       *)
(* store and the HTTP handlers that compose them.                          *)
(*                                                                         *)
(* float64 values are modelled as exact rationals <<n, d>> with d >= 0;    *)
(* d = 0 encodes the IEEE results of a division by zero: <<1,0>> = +Inf,   *)
(* <<-1,0>> = -Inf, <<0,0>> = NaN.  Strings are sequences of one-character *)
(* strings.  An instant is an integer number of hours since a midnight.    *)
(***************************************************************************)
EXTENDS Integers, Sequences, FiniteSets, TLC

VARIABLES users, now, resp, calc, tuner, inflight, deletes, service, collection

vars == <<users, now, resp, calc, tuner, inflight, deletes, service, collection>>

(***************************************************************************)
(* float64 arithmetic                                                      *)
(***************************************************************************)
Abs(n) == IF n < 0 THEN -n ELSE n

Sign(n) == IF n < 0 THEN -1 ELSE IF n > 0 THEN 1 ELSE 0

RECURSIVE Gcd(_, _)
Gcd(a, b) == IF b = 0 THEN a ELSE Gcd(b, a % b)

Norm(n, d) ==
    IF d = 0 THEN <<Sign(n), 0>>
    ELSE LET g == Gcd(Abs(n), Abs(d))
             s == Sign(d)
         IN  <<(s * n) \div g, (s * d) \div g>>

R(n, d) == Norm(n, d)

IsNaN(a) == a[2] = 0 /\ a[1] = 0

RAdd(a, b) ==
    IF a[2] = 0 /\ b[2] = 0
    THEN (IF a[1] = b[1] THEN a ELSE <<0, 0>>)
    ELSE Norm(a[1] * b[2] + b[1] * a[2], a[2] * b[2])

RNeg(a) == <<-a[1], a[2]>>

RSub(a, b) == RAdd(a, RNeg(b))

RMul(a, b) == Norm(a[1] * b[1], a[2] * b[2])

RDiv(a, b) ==
    IF b[2] = 0 THEN (IF a[2] = 0 \/ b[1] = 0 THEN <<0, 0>> ELSE <<0, 1>>)
    ELSE LET s == IF b[1] < 0 THEN -1 ELSE 1
         IN  Norm(s * a[1] * b[2], s * a[2] * b[1])

RLt(a, b) ==
    IF IsNaN(a) \/ IsNaN(b) THEN FALSE
    ELSE IF a[2] = 0 /\ b[2] = 0 THEN a[1] < b[1]
    ELSE a[1] * b[2] < b[1] * a[2]

RLe(a, b) == (~IsNaN(a)) /\ (~IsNaN(b)) /\ ~RLt(b, a)

RGt(a, b) == RLt(b, a)

RGe(a, b) == RLe(b, a)

RAbs(a) == <<Abs(a[1]), a[2]>>

\* math.Max and math.Min: a NaN operand gives NaN
RMax(a, b) ==
    IF IsNaN(a) \/ IsNaN(b) THEN <<0, 0>> ELSE IF RLt(a, b) THEN b ELSE a

RMin(a, b) ==
    IF IsNaN(a) \/ IsNaN(b) THEN <<0, 0>> ELSE IF RLt(b, a) THEN b ELSE a

\* int(f): conversion of a finite float64 to int truncates toward zero
IntOf(a) == IF a[2] = 0 THEN 0 ELSE Sign(a[1]) * (Abs(a[1]) \div a[2])

Zero == <<0, 1>>

One == <<1, 1>>

(***************************************************************************)
(* strings: strings.Split(s, ":")[0] and strconv.Atoi                      *)
(***************************************************************************)
DigitChars == <<"0", "1", "2", "3", "4", "5", "6", "7", "8", "9">>

IsDigit(c) == \E i \in 1..10 : DigitChars[i] = c

DigitVal(c) == (CHOOSE i \in 1..10 : DigitChars[i] = c) - 1

\* the part of s before the first ":" (all of s when there is none)
RECURSIVE SplitFirst(_)
SplitFirst(s) ==
    IF s = <<>> THEN <<>>
    ELSE IF Head(s) = ":" THEN <<>>
    ELSE <<Head(s)>> \o SplitFirst(Tail(s))

RECURSIVE DigitsValue(_, _)
DigitsValue(s, acc) ==
    IF s = <<>> THEN acc ELSE DigitsValue(Tail(s), 10 * acc + DigitVal(Head(s)))

\* strconv.Atoi with the error dropped: a syntax error leaves 0
Atoi(s) ==
    LET signed == s # <<>> /\ Head(s) \in {"+", "-"}
        body   == IF signed THEN Tail(s) ELSE s
    IN  IF body = <<>> \/ \E i \in 1..Len(body) : ~IsDigit(body[i]) THEN 0
        ELSE IF signed /\ Head(s) = "-" THEN -DigitsValue(body, 0)
        ELSE DigitsValue(body, 0)

StartHourOf(startTime) == Atoi(SplitFirst(startTime))

\* strconv.ParseFloat on [sign] digits [ "." digits ]; anything else is an error
ParseFloat(s) ==
    LET signed == s # <<>> /\ Head(s) \in {"+", "-"}
        body   == IF signed THEN Tail(s) ELSE s
        dots   == {i \in 1..Len(body) : body[i] = "."}
        whole  == IF dots = {} THEN body
                  ELSE SubSeq(body, 1, (CHOOSE i \in dots : TRUE) - 1)
        frac   == IF dots = {} THEN <<>>
                  ELSE SubSeq(body, (CHOOSE i \in dots : TRUE) + 1, Len(body))
        digits == whole \o frac
        wellFormed ==
            /\ Cardinality(dots) <= 1
            /\ digits # <<>>
            /\ \A i \in 1..Len(digits) : IsDigit(digits[i])
        RECURSIVE Pow10(_)
        Pow10(n) == IF n = 0 THEN 1 ELSE 10 * Pow10(n - 1)
        magnitude == R(DigitsValue(digits, 0), Pow10(Len(frac)))
    IN  IF ~wellFormed THEN [ok |-> FALSE, value |-> Zero]
        ELSE [ok |-> TRUE,
              value |-> IF signed /\ Head(s) = "-" THEN RNeg(magnitude) ELSE magnitude]

(***************************************************************************)
(* services/insulin: the dosing calculator                                 *)
(***************************************************************************)
CalculateMealInsulin(carbGrams, carbRatio, timeCoefficient) ==
    RMul(RDiv(carbGrams, carbRatio), timeCoefficient)

CalculateCorrectionInsulin(currentBG, targetBG, sensitivityFactor) ==
    RDiv(RSub(currentBG, targetBG), sensitivityFactor)

CalculateTotalInsulin(mealInsulin, correctionInsulin, insulinOnBoard) ==
    RMax(Zero, RSub(RAdd(mealInsulin, correctionInsulin), insulinOnBoard))

CalculateSensitivityFactor(totalDailyInsulin) ==
    RDiv(RDiv(R(100, 1), totalDailyInsulin), R(18, 1))

\* time.Time.Hour() of an instant counted in hours
HourOf(t) == t % 24

\* the if / else-if chain that picks a reading's bucket
BucketOfShifted(hour) ==
    IF hour >= 6 /\ hour < 12 THEN "morning"
    ELSE IF hour >= 12 /\ hour < 18 THEN "afternoon"
    ELSE IF hour >= 18 /\ hour < 24 THEN "evening"
    ELSE "night"

BucketOf(hour) ==
    IF hour >= 6 /\ hour < 12 THEN "morning"
    ELSE IF hour >= 12 /\ hour < 18 THEN "afternoon"
    ELSE IF hour >= 18 /\ hour < 22 THEN "evening"
    ELSE "night"

BucketNames == {"morning", "afternoon", "evening", "night"}

EmptyBuckets == [b \in BucketNames |-> <<>>]

\* the loop over readings: each value is appended to its bucket
RECURSIVE GroupReadings(_, _)
GroupReadings(readings, acc) ==
    IF readings = <<>> THEN acc
    ELSE LET r == Head(readings)
             b == BucketOf(HourOf(r.Timestamp))
         IN  GroupReadings(Tail(readings),
                           [acc EXCEPT ![b] = Append(acc[b], r.Value)])

RECURSIVE SumValues(_, _)
SumValues(values, sum) ==
    IF values = <<>> THEN sum ELSE SumValues(Tail(values), RAdd(sum, Head(values)))

calculateAverage(values) ==
    IF Len(values) = 0 THEN Zero
    ELSE RDiv(SumValues(values, Zero), R(Len(values), 1))

adjustCoefficientUnlimited(avgBG, targetBG, currentCoefficient) ==
    IF RLt(RAbs(RSub(avgBG, targetBG)), One) THEN currentCoefficient
    ELSE RMul(currentCoefficient, RDiv(targetBG, avgBG))

adjustCoefficientAlways(avgBG, targetBG, currentCoefficient) ==
    RMul(currentCoefficient,
         RMax(R(8, 10), RMin(R(12, 10), RDiv(targetBG, avgBG))))

adjustCoefficient(avgBG, targetBG, currentCoefficient) ==
    IF RLt(RAbs(RSub(avgBG, targetBG)), One) THEN currentCoefficient
    ELSE LET adjustmentFactor  == RDiv(targetBG, avgBG)
             limitedAdjustment == RMax(R(8, 10), RMin(R(12, 10), adjustmentFactor))
         IN  RMul(currentCoefficient, limitedAdjustment)

\* the input gate: fewer than 5 readings is not enough data
EnoughReadingsLoose(readings) == Len(readings) >= 3

EnoughReadings(readings) == Len(readings) >= 5

\* the per-bucket gate
BucketQualifiesLoose(values) == Len(values) >= 2

BucketQualifies(values) == Len(values) >= 3

\* the buckets the tuner builds; nothing is grouped behind the input gate
TunerBuckets(readings) ==
    IF EnoughReadings(readings) THEN GroupReadings(readings, EmptyBuckets)
    ELSE EmptyBuckets

AdjustInsulinCoefficients(readings, targetBG, currentCoefficients) ==
    IF ~EnoughReadings(readings) THEN currentCoefficients
    ELSE LET g == GroupReadings(readings, EmptyBuckets)
             adj(values, c) ==
                 IF BucketQualifies(values)
                 THEN adjustCoefficient(calculateAverage(values), targetBG, c)
                 ELSE c
         IN  [Morning   |-> adj(g["morning"], currentCoefficients.Morning),
              Afternoon |-> adj(g["afternoon"], currentCoefficients.Afternoon),
              Evening   |-> adj(g["evening"], currentCoefficients.Evening),
              Night     |-> adj(g["night"], currentCoefficients.Night)]

GetTimeBasedCoefficient(currentTime, coefficients) ==
    LET hour == HourOf(currentTime)
    IN  IF hour >= 6 /\ hour < 12 THEN coefficients.Morning
        ELSE IF hour >= 12 /\ hour < 18 THEN coefficients.Afternoon
        ELSE IF hour >= 18 /\ hour < 22 THEN coefficients.Evening
        ELSE coefficients.Night

(***************************************************************************)
(* models: settings, periods and the legacy quadrant conversion            *)
(***************************************************************************)
\* Go's == on float64: NaN is equal to nothing
FloatEq(a, b) == (~IsNaN(a)) /\ (~IsNaN(b)) /\ a = b

T0000 == <<"0", "0", ":", "0", "0">>

T0600 == <<"0", "6", ":", "0", "0">>

T1200 == <<"1", "2", ":", "0", "0">>

T1800 == <<"1", "8", ":", "0", "0">>

T2200 == <<"2", "2", ":", "0", "0">>

CreateDefaultSettings(userID) ==
    [TargetMin          |-> R(4, 1),
     TargetMax          |-> R(8, 1),
     IOBDuration        |-> R(4, 1),
     InsulinPeriods     |-> <<[StartTime |-> T0000, Coefficient |-> R(1, 1), Hours |-> R(24, 1)]>>,
     SensitivityPeriods |-> <<[StartTime |-> T0000, Sensitivity |-> R(2, 1), Hours |-> R(24, 1)]>>,
     CarbRatioPeriods   |-> <<[StartTime |-> T0000, Ratio |-> R(1, 1), Hours |-> R(24, 1)]>>]

ConvertToInsulinPeriods(b) ==
    <<[StartTime |-> T0000, Hours |-> R(6, 1), Coefficient |-> b.Night],
      [StartTime |-> T0600, Hours |-> R(6, 1), Coefficient |-> b.Morning],
      [StartTime |-> T1200, Hours |-> R(6, 1), Coefficient |-> b.Afternoon],
      [StartTime |-> T1800, Hours |-> R(6, 1), Coefficient |-> b.Evening]>>

\* no handler calls this: a first-seen user gets CreateDefaultSettings
DefaultBaseCoefficients ==
    <<[StartTime |-> T0000, Coefficient |-> R(1, 1), Hours |-> R(6, 1)],
      [StartTime |-> T0600, Coefficient |-> R(12, 10), Hours |-> R(6, 1)],
      [StartTime |-> T1200, Coefficient |-> R(1, 1), Hours |-> R(6, 1)],
      [StartTime |-> T1800, Coefficient |-> R(8, 10), Hours |-> R(6, 1)]>>

\* the loop body with end hours strictly inside the quadrant
ApplyPeriodToBaseInside(result, period) ==
    LET startHour == StartHourOf(period.StartTime)
        endHour   == startHour + IntOf(period.Hours)
    IN  IF startHour >= 0 /\ startHour < 6 /\ endHour < 6
        THEN [result EXCEPT !.Night = period.Coefficient]
        ELSE IF startHour >= 6 /\ startHour < 12 /\ endHour < 12
        THEN [result EXCEPT !.Morning = period.Coefficient]
        ELSE IF startHour >= 12 /\ startHour < 18 /\ endHour < 18
        THEN [result EXCEPT !.Afternoon = period.Coefficient]
        ELSE IF startHour >= 18 /\ startHour < 24 /\ endHour < 24
        THEN [result EXCEPT !.Evening = period.Coefficient]
        ELSE result

\* one pass of the loop body: the quadrant a period is written to, if any
ApplyPeriodToBase(result, period) ==
    LET startHour == StartHourOf(period.StartTime)
        endHour   == startHour + IntOf(period.Hours)
    IN  IF startHour >= 0 /\ startHour < 6 /\ endHour <= 6
        THEN [result EXCEPT !.Night = period.Coefficient]
        ELSE IF startHour >= 6 /\ startHour < 12 /\ endHour <= 12
        THEN [result EXCEPT !.Morning = period.Coefficient]
        ELSE IF startHour >= 12 /\ startHour < 18 /\ endHour <= 18
        THEN [result EXCEPT !.Afternoon = period.Coefficient]
        ELSE IF startHour >= 18 /\ startHour < 24 /\ endHour <= 24
        THEN [result EXCEPT !.Evening = period.Coefficient]
        ELSE result

RECURSIVE FoldPeriodsToBase(_, _)
FoldPeriodsToBase(periods, result) ==
    IF periods = <<>> THEN result
    ELSE FoldPeriodsToBase(Tail(periods), ApplyPeriodToBase(result, Head(periods)))

InsulinPeriodsToBaseCoefficients(periods) ==
    FoldPeriodsToBase(periods,
        [Morning |-> R(1, 1), Afternoon |-> R(1, 1), Evening |-> R(1, 1), Night |-> R(1, 1)])

(***************************************************************************)
(* storage: the in-memory store                                            *)
(***************************************************************************)
\* the trailing window of SaveBloodSugar, AnalyzeFood and the default query
WeekHours == 168

ensureValidSettingsMemory(settings) ==
    LET d  == CreateDefaultSettings("")
        s1 == IF Len(settings.InsulinPeriods) = 0
              THEN [settings EXCEPT !.InsulinPeriods = d.InsulinPeriods] ELSE settings
        s2 == IF Len(s1.SensitivityPeriods) = 0
              THEN [s1 EXCEPT !.SensitivityPeriods = d.SensitivityPeriods] ELSE s1
        s3 == IF Len(s2.CarbRatioPeriods) = 0
              THEN [s2 EXCEPT !.CarbRatioPeriods = d.CarbRatioPeriods] ELSE s2
        s4 == IF FloatEq(s3.TargetMin, Zero) /\ FloatEq(s3.TargetMax, Zero)
              THEN [s3 EXCEPT !.TargetMin = R(4, 1), !.TargetMax = R(8, 1)] ELSE s3
    IN  IF FloatEq(s4.IOBDuration, Zero) THEN [s4 EXCEPT !.IOBDuration = R(4, 1)] ELSE s4

\* GetUser: the user record, or nil (found = FALSE) for an unknown id
StoreGetUser(store, userID) ==
    IF userID \in DOMAIN store THEN [found |-> TRUE, user |-> store[userID]]
    ELSE [found |-> FALSE]

StoreCreateUser(store, userID, settings) ==
    [u \in DOMAIN store \cup {userID} |->
        IF u = userID THEN [Settings |-> settings, BloodSugarReadings |-> <<>>]
        ELSE store[u]]

StoreUpdateUserSettings(store, userID, settings) ==
    [store EXCEPT ![userID].Settings = ensureValidSettingsMemory(settings)]

\* the reading put behind the ones already held
StoreAddBloodSugarReadingLast(store, userID, reading) ==
    [store EXCEPT ![userID].BloodSugarReadings = @ \o <<reading>>]

StoreAddBloodSugarReading(store, userID, reading) ==
    [store EXCEPT ![userID].BloodSugarReadings = <<reading>> \o @]

StoreGetRecentBloodSugarReadings(store, userID, limit, startDate) ==
    LET filtered == SelectSeq(store[userID].BloodSugarReadings,
                              LAMBDA r : r.Timestamp > startDate \/ r.Timestamp = startDate)
    IN  IF limit > 0 /\ Len(filtered) > limit THEN SubSeq(filtered, 1, limit) ELSE filtered

StoreSaveUserSettings(store, userID, settings) ==
    IF userID \notin DOMAIN store THEN StoreCreateUser(store, userID, settings)
    ELSE [store EXCEPT ![userID].Settings = settings]

\* index of the first reading with the given timestamp, 0 when there is none
FirstWithTimestamp(readings, t) ==
    IF \E i \in 1..Len(readings) : readings[i].Timestamp = t
    THEN CHOOSE i \in 1..Len(readings) :
            /\ readings[i].Timestamp = t
            /\ \A j \in 1..(i - 1) : readings[j].Timestamp # t
    ELSE 0

RemoveFrom(seq, i) == SubSeq(seq, 1, i - 1)

RemoveAt(seq, i) == SubSeq(seq, 1, i - 1) \o SubSeq(seq, i + 1, Len(seq))

\* a delete that rebuilds the user record around the remaining readings
StoreDeleteBloodSugarReadingRebuilding(store, userID, i) ==
    [store EXCEPT ![userID] = [Settings |-> CreateDefaultSettings(userID),
                               BloodSugarReadings |->
                                   RemoveAt(store[userID].BloodSugarReadings, i)]]

\* DeleteBloodSugarReading once the reading at index i has been found
StoreDeleteBloodSugarReading(store, userID, i) ==
    [store EXCEPT ![userID].BloodSugarReadings = RemoveAt(@, i)]

(***************************************************************************)
(* storage: the MongoDB store                                              *)
(*                                                                         *)
(* A user document has the fields models.User decodes ("settings",         *)
(* "bloodSugarReadings") and, beside them at the root of the document, the *)
(* fields that an update {"$set": settings} writes (Root).  A field that   *)
(* was never written decodes as its zero value.                            *)
(***************************************************************************)
ZeroSettings ==
    [TargetMin          |-> Zero,
     TargetMax          |-> Zero,
     IOBDuration        |-> Zero,
     InsulinPeriods     |-> <<>>,
     SensitivityPeriods |-> <<>>,
     CarbRatioPeriods   |-> <<>>]

ensureValidSettingsMongo(settings) ==
    LET s1 == IF FloatEq(settings.TargetMin, Zero)
              THEN [settings EXCEPT !.TargetMin = R(4, 1)] ELSE settings
        s2 == IF FloatEq(s1.TargetMax, Zero) THEN [s1 EXCEPT !.TargetMax = R(8, 1)] ELSE s1
        s3 == IF FloatEq(s2.IOBDuration, Zero)
              THEN [s2 EXCEPT !.IOBDuration = R(4, 1)] ELSE s2
        s4 == IF Len(s3.CarbRatioPeriods) = 0
              THEN [s3 EXCEPT !.CarbRatioPeriods =
                       <<[StartTime |-> T0000, Ratio |-> R(1, 1), Hours |-> R(24, 1)]>>]
              ELSE s3
        s5 == IF Len(s4.SensitivityPeriods) = 0
              THEN [s4 EXCEPT !.SensitivityPeriods =
                       <<[StartTime |-> T0000, Sensitivity |-> R(2, 1), Hours |-> R(24, 1)]>>]
              ELSE s4
    IN  IF Len(s5.InsulinPeriods) = 0
        THEN [s5 EXCEPT !.InsulinPeriods =
                 <<[StartTime |-> T0000, Coefficient |-> R(1, 1), Hours |-> R(24, 1)]>>]
        ELSE s5

\* the document an upsert inserts when the filter {"userId": userID} matches nothing
MongoUpserted == [Settings |-> ZeroSettings, Root |-> ZeroSettings, BloodSugarReadings |-> <<>>]

\* FindOne(...).Decode(&user): the "settings" and "bloodSugarReadings" fields
MongoGetUser(coll, userID) ==
    IF userID \in DOMAIN coll
    THEN [found |-> TRUE,
          user  |-> [Settings |-> coll[userID].Settings,
                     BloodSugarReadings |-> coll[userID].BloodSugarReadings]]
    ELSE [found |-> FALSE]

\* InsertOne(user); a second document for a userId that has one already is
\* never the one that FindOne and UpdateOne pick
MongoCreateUser(coll, userID, settings) ==
    IF userID \in DOMAIN coll THEN coll
    ELSE [u \in DOMAIN coll \cup {userID} |->
             IF u = userID
             THEN [Settings |-> settings, Root |-> ZeroSettings,
                   BloodSugarReadings |-> <<>>]
             ELSE coll[u]]

\* UpdateOne with {"$set": settings}: no document is inserted
MongoUpdateUserSettings(coll, userID, settings) ==
    IF userID \in DOMAIN coll THEN [coll EXCEPT ![userID].Root = settings] ELSE coll

\* UpdateOne with {"$push": {"bloodSugarReadings": reading}} and upsert
MongoAddBloodSugarReading(coll, userID, reading) ==
    LET c == IF userID \in DOMAIN coll THEN coll
             ELSE [u \in DOMAIN coll \cup {userID} |->
                      IF u = userID THEN MongoUpserted ELSE coll[u]]
    IN  [c EXCEPT ![userID].BloodSugarReadings = Append(@, reading)]

MongoGetRecentBloodSugarReadings(coll, userID, limit, startDate) ==
    IF userID \notin DOMAIN coll THEN <<>>
    ELSE LET filtered == SelectSeq(coll[userID].BloodSugarReadings,
                                   LAMBDA r : r.Timestamp > startDate)
         IN  IF limit > 0 /\ Len(filtered) > limit THEN SubSeq(filtered, 1, limit)
             ELSE filtered

\* UpdateOne with {"$set": settings} and upsert
MongoSaveUserSettings(coll, userID, settings) ==
    LET c == IF userID \in DOMAIN coll THEN coll
             ELSE [u \in DOMAIN coll \cup {userID} |->
                      IF u = userID THEN MongoUpserted ELSE coll[u]]
    IN  [c EXCEPT ![userID].Root = ensureValidSettingsMongo(settings)]

\* DeleteBloodSugarReading for a parsed timestamp t: $pull takes out every
\* reading whose timestamp is t; ModifiedCount is 0 when there was none
MongoDeleteBloodSugarReading(coll, userID, t) ==
    IF ~MongoGetUser(coll, userID).found
    THEN [err |-> "user not found", coll |-> coll]
    ELSE LET kept == SelectSeq(coll[userID].BloodSugarReadings,
                               LAMBDA r : r.Timestamp # t)
         IN  IF kept = coll[userID].BloodSugarReadings
             THEN [err |-> "no reading found with the specified timestamp", coll |-> coll]
             ELSE [err |-> "", coll |-> [coll EXCEPT ![userID].BloodSugarReadings = kept]]

(***************************************************************************)
(* The tuner applied to drawn inputs                                       *)
(***************************************************************************)
MaxTunerReadings == 6

\* one instant per bucket, and a late-evening hour that belongs to night
TunerInstants == {3, 8, 14, 19, 23}

TunerValues == {R(3, 1), R(8, 1)}

TunerTargets == {R(4, 1), R(6, 1)}

TunerCoefficients ==
    {[Morning |-> R(12, 10), Afternoon |-> R(1, 1), Evening |-> R(8, 10), Night |-> R(3, 2)]}

\* reading lists as the store hands them over: newest first
RECURSIVE NewestFirst(_, _, _)
NewestFirst(n, instants, values) ==
    IF n = 0 THEN {<<>>}
    ELSE UNION {{<<[Value |-> v, Timestamp |-> t]>> \o rest :
                   rest \in NewestFirst(n - 1, {u \in instants : u <= t}, values)} :
                <<t, v>> \in instants \X values}

BucketMixes(max) ==
    UNION {NewestFirst(n, TunerInstants, TunerValues) : n \in 0..max}

\* five readings taken within one hour of the day, for every hour
HourProbes == UNION {NewestFirst(5, {h}, TunerValues) : h \in 0..23}

IdleTuner == [stage |-> "idle"]

IdleCalc == [stage |-> "idle"]

IdleInflight == <<>>

IdleService == [stage |-> "idle"]

InitTuner ==
    /\ \E rs \in BucketMixes(MaxTunerReadings) \cup HourProbes, t \in TunerTargets, c \in TunerCoefficients :
           tuner = [stage |-> "input", readings |-> rs, targetBG |-> t, current |-> c]
    /\ calc = IdleCalc
    /\ users = <<>>
    /\ now = 0
    /\ resp = [op |-> "none"]
    /\ inflight = IdleInflight
    /\ deletes = 0
    /\ service = IdleService
    /\ collection = <<>>

RunAdjust ==
    /\ tuner.stage = "input"
    /\ tuner' = [stage    |-> "adjusted",
                 readings |-> tuner.readings,
                 targetBG |-> tuner.targetBG,
                 current  |-> tuner.current,
                 buckets  |-> TunerBuckets(tuner.readings),
                 out      |-> AdjustInsulinCoefficients(tuner.readings, tuner.targetBG,
                                                        tuner.current)]
    /\ UNCHANGED <<users, now, resp, calc, inflight, deletes, service, collection>>

RunAgain ==
    /\ tuner.stage = "adjusted"
    /\ tuner' = [tuner EXCEPT !.stage = "again",
                              !.current = tuner.out,
                              !.out = AdjustInsulinCoefficients(tuner.readings, tuner.targetBG,
                                                                tuner.out)]
    /\ UNCHANGED <<users, now, resp, calc, inflight, deletes, service, collection>>

NextTuner == RunAdjust \/ RunAgain

SpecTuner == InitTuner /\ [][NextTuner]_vars

(***************************************************************************)
(* The dosing calculator applied to drawn inputs                           *)
(***************************************************************************)
CalcValues == {R(-3, 1), R(0, 1), R(2, 1), R(5, 1), R(6, 1), R(9, 1)}

InitCalc ==
    /\ \E a \in CalcValues, b \in CalcValues, c \in CalcValues :
           calc = [stage |-> "input", a |-> a, b |-> b, c |-> c]
    /\ tuner = IdleTuner
    /\ users = <<>>
    /\ now = 0
    /\ resp = [op |-> "none"]
    /\ inflight = IdleInflight
    /\ deletes = 0
    /\ service = IdleService
    /\ collection = <<>>

CalcDone(fn, out) ==
    /\ calc.stage = "input"
    /\ calc' = [stage |-> "done", fn |-> fn, a |-> calc.a, b |-> calc.b, c |-> calc.c,
                out |-> out]
    /\ UNCHANGED <<users, now, resp, tuner, inflight, deletes, service, collection>>

ApplyMealInsulin == CalcDone("meal", CalculateMealInsulin(calc.a, calc.b, calc.c))

ApplyCorrectionInsulin ==
    CalcDone("correction", CalculateCorrectionInsulin(calc.a, calc.b, calc.c))

ApplyTotalInsulin == CalcDone("total", CalculateTotalInsulin(calc.a, calc.b, calc.c))

ApplySensitivityFactor == CalcDone("sensitivity", CalculateSensitivityFactor(calc.a))

NextCalc ==
    \/ ApplyMealInsulin
    \/ ApplyCorrectionInsulin
    \/ ApplyTotalInsulin
    \/ ApplySensitivityFactor

SpecCalc == InitCalc /\ [][NextCalc]_vars

(***************************************************************************)
(* web: the period validation of the settings form                         *)
(***************************************************************************)
\* the run of digits a string starts with
RECURSIVE LeadingDigits(_)
LeadingDigits(s) ==
    IF s = <<>> \/ ~IsDigit(Head(s)) THEN <<>>
    ELSE <<Head(s)>> \o LeadingDigits(Tail(s))

\* parseInt(s, 10) for unsigned text: the leading digits, NaN without any
parseInt(s) ==
    IF LeadingDigits(s) = <<>> THEN R(0, 0) ELSE R(DigitsValue(LeadingDigits(s), 0), 1)

\* parseFloat for unsigned decimal text, NaN otherwise
parseFloat(s) == IF ParseFloat(s).ok THEN ParseFloat(s).value ELSE R(0, 0)

\* periods.sort((a, b) => a.startHour - b.startHour), a stable sort
RECURSIVE InsertByStartHour(_, _)
InsertByStartHour(sorted, p) ==
    IF sorted = <<>> THEN <<p>>
    ELSE IF RLt(p.startHour, Head(sorted).startHour) THEN <<p>> \o sorted
    ELSE <<Head(sorted)>> \o InsertByStartHour(Tail(sorted), p)

RECURSIVE SortByStartHour(_, _)
SortByStartHour(periods, sorted) ==
    IF periods = <<>> THEN sorted
    ELSE SortByStartHour(Tail(periods), InsertByStartHour(sorted, Head(periods)))

\* the rows of the form as period objects; a row without a coefficient is
\* skipped
getInsulinPeriods(rows) ==
    LET kept == SelectSeq(rows, LAMBDA row : ~IsNaN(parseFloat(row.coefficient)))
        periods == [i \in 1..Len(kept) |->
                       [startHour   |-> parseInt(kept[i].start),
                        endHour     |-> parseInt(kept[i].end),
                        coefficient |-> parseFloat(kept[i].coefficient)]]
    IN  SortByStartHour(periods, <<>>)

RECURSIVE SumEndMinusStart(_, _)
SumEndMinusStart(periods, totalHours) ==
    IF periods = <<>> THEN totalHours
    ELSE SumEndMinusStart(Tail(periods),
             RAdd(totalHours, RSub(Head(periods).endHour, Head(periods).startHour)))

validatePeriods(rows) ==
    LET totalHours == SumEndMinusStart(getInsulinPeriods(rows), Zero)
    IN  [ok |-> FloatEq(totalHours, R(24, 1)), totalHours |-> totalHours]

RECURSIVE calculateTotalHours(_, _)
calculateTotalHours(hourInputs, total) ==
    IF hourInputs = <<>> THEN total
    ELSE LET value == parseFloat(Head(hourInputs))
         IN  calculateTotalHours(Tail(hourInputs),
                 IF ~IsNaN(value) THEN RAdd(total, value) ELSE total)

(***************************************************************************)
(* The period validation applied to drawn forms (SpecValidate)             *)
(***************************************************************************)
MaxRows == 3

MaxHourInputs == 3

ClockTimes == {T0000, T0600, T1200, T2200}

FormRows ==
    {[start |-> a, end |-> b, coefficient |-> <<"1">>] : a \in ClockTimes, b \in ClockTimes}

RECURSIVE SeqsUpTo(_, _)
SeqsUpTo(n, S) ==
    IF n = 0 THEN {<<>>}
    ELSE SeqsUpTo(n - 1, S) \cup {<<x>> \o q : x \in S, q \in SeqsUpTo(n - 1, S)}

HourInputs == {<<"6">>, <<"1", "2">>, <<"1", "8">>, <<>>}

InitValidate ==
    /\ \/ \E rows \in SeqsUpTo(MaxRows, FormRows) :
             calc = [stage |-> "form", rows |-> rows, hours |-> <<>>]
       \/ \E hours \in SeqsUpTo(MaxHourInputs, HourInputs) :
             calc = [stage |-> "form", rows |-> <<>>, hours |-> hours]
    /\ tuner = IdleTuner
    /\ users = <<>>
    /\ now = 0
    /\ resp = [op |-> "none"]
    /\ inflight = IdleInflight
    /\ deletes = 0
    /\ service = IdleService
    /\ collection = <<>>

ApplyValidatePeriods ==
    /\ calc.stage = "form"
    /\ calc' = [stage |-> "validated", rows |-> calc.rows, hours |-> calc.hours,
                out |-> validatePeriods(calc.rows)]
    /\ UNCHANGED <<users, now, resp, tuner, inflight, deletes, service, collection>>

ApplyCalculateTotalHours ==
    /\ calc.stage = "form"
    /\ calc' = [stage |-> "totalled", rows |-> calc.rows, hours |-> calc.hours,
                out |-> [total |-> calculateTotalHours(calc.hours, Zero)]]
    /\ UNCHANGED <<users, now, resp, tuner, inflight, deletes, service, collection>>

NextValidate == ApplyValidatePeriods \/ ApplyCalculateTotalHours

SpecValidate == InitValidate /\ [][NextValidate]_vars

(***************************************************************************)
(* services/ai: the choice of the AI provider                              *)
(***************************************************************************)
\* a Provider interface value: nil, or a pointer of some provider type,
\* which may itself be a nil pointer
NilProvider == [type |-> "nil", pointer |-> "nil"]

\* NewOpenAIProvider and NewGrokProvider fail only on an empty key
NewKeyedProvider(type, apiKey) ==
    IF apiKey = "" THEN [type |-> type, pointer |-> "nil"]
    ELSE [type |-> type, pointer |-> "valid"]

\* NewGeminiProvider fails when the client cannot be created
NewGeminiProvider(apiKey, clientFails) ==
    IF clientFails THEN [type |-> "gemini", pointer |-> "nil"]
    ELSE [type |-> "gemini", pointer |-> "valid"]

\* NewService of internal/services/ai, the one main calls
NewService(cfg, clientFails) ==
    LET s1 == IF cfg.OpenAIToken # ""
              THEN [provider |-> NewKeyedProvider("openai", cfg.OpenAIToken),
                    providerName |-> "openai"]
              ELSE [provider |-> NilProvider, providerName |-> ""]
        s2 == IF s1.provider = NilProvider /\ cfg.GeminiToken # ""
              THEN [provider |-> NewGeminiProvider(cfg.GeminiToken, clientFails),
                    providerName |-> "gemini"]
              ELSE s1
        s3 == IF s2.provider = NilProvider /\ cfg.GrokToken # ""
              THEN [provider |-> NewKeyedProvider("grok", cfg.GrokToken),
                    providerName |-> "grok"]
              ELSE s2
    IN  IF s3.provider = NilProvider
        THEN [provider |-> [type |-> "mock", pointer |-> "valid"], providerName |-> "mock"]
        ELSE s3

\* the other NewService, whose provider constructors cannot fail; without
\* any key it returns an error and no service
NewServiceByPreference(cfg) ==
    IF cfg.GeminiToken # ""
    THEN [provider |-> [type |-> "gemini", pointer |-> "valid"], providerName |-> "gemini"]
    ELSE IF cfg.OpenAIToken # ""
    THEN [provider |-> [type |-> "openai", pointer |-> "valid"], providerName |-> "openai"]
    ELSE IF cfg.GrokToken # ""
    THEN [provider |-> [type |-> "grok", pointer |-> "valid"], providerName |-> "grok"]
    ELSE [provider |-> NilProvider, providerName |-> ""]

(***************************************************************************)
(* The provider choice applied to drawn configurations (SpecService)       *)
(***************************************************************************)
TokenValues == {"", "key-1", "key-2"}

InitService ==
    /\ \E o \in TokenValues, g \in TokenValues, k \in TokenValues, f \in BOOLEAN :
          service = [stage |-> "config",
                     cfg |-> [OpenAIToken |-> o, GeminiToken |-> g, GrokToken |-> k],
                     clientFails |-> f,
                     out |-> [provider |-> NilProvider, providerName |-> ""]]
    /\ users = <<>>
    /\ now = 0
    /\ resp = [op |-> "none"]
    /\ calc = IdleCalc
    /\ tuner = IdleTuner
    /\ inflight = IdleInflight
    /\ deletes = 0
    /\ collection = <<>>

ApplyNewService ==
    /\ service.stage = "config"
    /\ service' = [service EXCEPT !.stage = "internal",
                                  !.out = NewService(service.cfg, service.clientFails)]
    /\ UNCHANGED <<users, now, resp, calc, tuner, inflight, deletes, collection>>

ApplyNewServiceByPreference ==
    /\ service.stage = "config"
    /\ service' = [service EXCEPT !.stage = "preference",
                                  !.out = NewServiceByPreference(service.cfg)]
    /\ UNCHANGED <<users, now, resp, calc, tuner, inflight, deletes, collection>>

NextService == ApplyNewService \/ ApplyNewServiceByPreference

SpecService == InitService /\ [][NextService]_vars

(***************************************************************************)
(* handlers: the HTTP handlers over the in-memory store                    *)
(***************************************************************************)
areInsulinPeriodsEqualNoCoefficient(a, b) ==
    /\ Len(a) = Len(b)
    /\ \A i \in 1..Len(a) :
          /\ a[i].StartTime = b[i].StartTime
          /\ FloatEq(a[i].Hours, b[i].Hours)

areInsulinPeriodsEqual(a, b) ==
    /\ Len(a) = Len(b)
    /\ \A i \in 1..Len(a) :
          /\ a[i].StartTime = b[i].StartTime
          /\ FloatEq(a[i].Hours, b[i].Hours)
          /\ FloatEq(a[i].Coefficient, b[i].Coefficient)

\* the scan of AnalyzeFood over the dosing-coefficient periods
RECURSIVE ScanInsulinPeriods(_, _)
ScanInsulinPeriods(periods, hour) ==
    IF periods = <<>> THEN R(1, 1)
    ELSE LET period    == Head(periods)
             startHour == StartHourOf(period.StartTime)
         IN  IF hour >= startHour /\ hour < startHour + IntOf(period.Hours)
             THEN period.Coefficient
             ELSE ScanInsulinPeriods(Tail(periods), hour)

ResolvePeriodCoefficientFirst(periods, hour) ==
    IF Len(periods) > 0 THEN periods[1].Coefficient ELSE R(1, 1)

ResolvePeriodCoefficient(periods, hour) ==
    IF Len(periods) > 0 THEN ScanInsulinPeriods(periods, hour) ELSE R(1, 1)

BloodSugarStatus(value) ==
    IF RLt(value, R(39, 10)) THEN "Low blood sugar (hypoglycemia)"
    ELSE IF RGt(value, R(10, 1)) THEN "High blood sugar (hyperglycemia)"
    ELSE IF RGt(value, R(7, 1)) THEN "Slightly elevated"
    ELSE "Normal range"

(***************************************************************************)
(* services/ai: extractJSONFromText (SpecExtract)                          *)
(***************************************************************************)
\* the loop over the characters from index i on (indices count from 0 as in
\* the code; the character at index i is text[i + 1])
RECURSIVE ExtractLoop(_, _, _)
ExtractLoop(text, i, st) ==
    IF i >= Len(text) THEN st
    ELSE LET char     == text[i + 1]
             inString == IF char = "\"" /\ ~st.escape THEN ~st.inString ELSE st.inString
             escape   == char = "\\" /\ ~st.escape
             st1      == [st EXCEPT !.inString = inString, !.escape = escape]
         IN  IF inString THEN ExtractLoop(text, i + 1, st1)
             ELSE IF char = "{"
             THEN ExtractLoop(text, i + 1,
                      [st1 EXCEPT !.start = IF st.braceCount = 0 THEN i ELSE st.start,
                                  !.braceCount = st.braceCount + 1])
             ELSE IF char = "}"
             THEN IF st.braceCount - 1 = 0
                  THEN [st1 EXCEPT !.braceCount = 0, !.end = i]
                  ELSE ExtractLoop(text, i + 1,
                                   [st1 EXCEPT !.braceCount = st.braceCount - 1])
             ELSE ExtractLoop(text, i + 1, st1)

extractJSONFromText(text) ==
    LET st == ExtractLoop(text, 0,
                          [start |-> -1, end |-> -1, braceCount |-> 0,
                           inString |-> FALSE, escape |-> FALSE])
    IN  IF st.start >= 0 /\ st.end > st.start
        THEN [ok |-> TRUE, json |-> SubSeq(text, st.start + 1, st.end + 1)]
        ELSE [ok |-> FALSE, json |-> <<>>]

MaxTextLen == 5

TextChars == {"{", "}", "\"", "\\", "a"}

InitExtract ==
    /\ \E text \in SeqsUpTo(MaxTextLen, TextChars) : calc = [stage |-> "text", text |-> text]
    /\ tuner = IdleTuner
    /\ users = <<>>
    /\ now = 0
    /\ resp = [op |-> "none"]
    /\ inflight = IdleInflight
    /\ deletes = 0
    /\ service = IdleService
    /\ collection = <<>>

ApplyExtractJSONFromText ==
    /\ calc.stage = "text"
    /\ calc' = [stage |-> "extracted", text |-> calc.text,
                out |-> extractJSONFromText(calc.text)]
    /\ UNCHANGED <<users, now, resp, tuner, inflight, deletes, service, collection>>

NextExtract == ApplyExtractJSONFromText

SpecExtract == InitExtract /\ [][NextExtract]_vars

(***************************************************************************)
(* main: the masking of the MongoDB URI for the log (SpecMask)             *)
(***************************************************************************)
\* the string of a Go literal, one character per element
Chars(str) ==
    CASE str = "@" -> <<"@">>
      [] str = "://" -> <<":", "/", "/">>
      [] str = "******:******@" ->
            <<"*", "*", "*", "*", "*", "*", ":", "*", "*", "*", "*", "*", "*", "@">>
      [] str = "mongodb" -> <<"m", "o", "n", "g", "o", "d", "b">>
      [] str = "h1" -> <<"h", "1">>
      [] str = "h2/db" -> <<"h", "2", "/", "d", "b">>

HasPrefix(s, prefix) ==
    Len(s) >= Len(prefix) /\ SubSeq(s, 1, Len(prefix)) = prefix

\* strings.Index: the position of the first occurrence of sep, 0 for none
StringsIndex(s, sep) ==
    LET hits == {i \in 1..Len(s) : HasPrefix(SubSeq(s, i, Len(s)), sep)}
    IN  IF hits = {} THEN 0 ELSE CHOOSE i \in hits : \A j \in hits : i <= j

StringsContains(s, substr) == StringsIndex(s, substr) # 0

\* strings.Split for a non-empty separator
RECURSIVE StringsSplit(_, _)
StringsSplit(s, sep) ==
    LET i == StringsIndex(s, sep)
    IN  IF i = 0 THEN <<s>>
        ELSE <<SubSeq(s, 1, i - 1)>> \o StringsSplit(SubSeq(s, i + Len(sep), Len(s)), sep)

getMaskedMongoURI(uri) ==
    IF StringsContains(uri, Chars("@"))
    THEN LET parts == StringsSplit(uri, Chars("@"))
             credentials == StringsSplit(parts[1], Chars("://"))
         IN  IF Len(parts) >= 2 /\ Len(credentials) >= 2
             THEN credentials[1] \o Chars("://") \o Chars("******:******@") \o parts[2]
             ELSE uri
    ELSE uri

MaskUsernames == {<<"u">>, <<"v", "w">>}

MaskPasswords == {<<"p">>, <<"q", "s">>, <<"p", "@", "s">>, <<"@", "q">>}

MaskHosts == {Chars("h1"), Chars("h2/db")}

MongoURI(username, password, host) ==
    Chars("mongodb") \o Chars("://") \o username \o <<":">> \o password \o Chars("@") \o host

\* two URIs that differ in nothing but the username and the password
InitMask ==
    /\ \E u1 \in MaskUsernames, p1 \in MaskPasswords,
          u2 \in MaskUsernames, p2 \in MaskPasswords, host \in MaskHosts :
           calc = [stage |-> "uris", host |-> host,
                   first  |-> [username |-> u1, password |-> p1],
                   second |-> [username |-> u2, password |-> p2]]
    /\ tuner = IdleTuner
    /\ users = <<>>
    /\ now = 0
    /\ resp = [op |-> "none"]
    /\ inflight = IdleInflight
    /\ deletes = 0
    /\ service = IdleService
    /\ collection = <<>>

\* the log line of main for each of the two URIs
ApplyGetMaskedMongoURI ==
    /\ calc.stage = "uris"
    /\ calc' = [calc EXCEPT
                  !.stage = "masked",
                  !.first = [username |-> calc.first.username,
                             password |-> calc.first.password,
                             out |-> getMaskedMongoURI(
                                         MongoURI(calc.first.username,
                                                  calc.first.password, calc.host))],
                  !.second = [username |-> calc.second.username,
                              password |-> calc.second.password,
                              out |-> getMaskedMongoURI(
                                          MongoURI(calc.second.username,
                                                   calc.second.password, calc.host))]]
    /\ UNCHANGED <<users, now, resp, tuner, inflight, deletes, service, collection>>

NextMask == ApplyGetMaskedMongoURI

SpecMask == InitMask /\ [][NextMask]_vars

(***************************************************************************)
(* The quadrant conversions applied to drawn inputs (SpecConvert)          *)
(***************************************************************************)
ConvertValues == {R(1, 1), R(12, 10), R(8, 10)}

ConvertQuadrants ==
    [Morning : ConvertValues, Afternoon : ConvertValues,
     Evening : ConvertValues, Night : ConvertValues]

\* the four quadrant periods, the same four from the evening back to the
\* night, and a day of 8, 4, 6 and 6 hours
ConvertPeriodLists ==
    UNION {{ConvertToInsulinPeriods(b),
            <<ConvertToInsulinPeriods(b)[4], ConvertToInsulinPeriods(b)[3],
              ConvertToInsulinPeriods(b)[2], ConvertToInsulinPeriods(b)[1]>>,
            <<[StartTime |-> T0000, Hours |-> R(8, 1), Coefficient |-> b.Night],
              [StartTime |-> <<"0", "8", ":", "0", "0">>, Hours |-> R(4, 1),
               Coefficient |-> b.Morning],
              [StartTime |-> T1200, Hours |-> R(6, 1), Coefficient |-> b.Afternoon],
              [StartTime |-> T1800, Hours |-> R(6, 1), Coefficient |-> b.Evening]>>}
           : b \in ConvertQuadrants}

InitConvert ==
    /\ \/ \E b \in ConvertQuadrants : calc = [stage |-> "quadrants", in |-> b]
       \/ \E periods \in ConvertPeriodLists : calc = [stage |-> "periods", in |-> periods]
    /\ tuner = IdleTuner
    /\ users = <<>>
    /\ now = 0
    /\ resp = [op |-> "none"]
    /\ inflight = IdleInflight
    /\ deletes = 0
    /\ service = IdleService
    /\ collection = <<>>

\* b.ConvertToInsulinPeriods() handed to InsulinPeriodsToBaseCoefficients
ApplyQuadrantsToPeriodsAndBack ==
    /\ calc.stage = "quadrants"
    /\ calc' = [stage |-> "quadrantsBack", in |-> calc.in,
                out |-> InsulinPeriodsToBaseCoefficients(ConvertToInsulinPeriods(calc.in))]
    /\ UNCHANGED <<users, now, resp, tuner, inflight, deletes, service, collection>>

\* InsulinPeriodsToBaseCoefficients(periods) converted to periods again
ApplyPeriodsToQuadrantsAndBack ==
    /\ calc.stage = "periods"
    /\ calc' = [stage |-> "periodsBack", in |-> calc.in,
                out |-> ConvertToInsulinPeriods(InsulinPeriodsToBaseCoefficients(calc.in))]
    /\ UNCHANGED <<users, now, resp, tuner, inflight, deletes, service, collection>>

NextConvert == ApplyQuadrantsToPeriodsAndBack \/ ApplyPeriodsToQuadrantsAndBack

SpecConvert == InitConvert /\ [][NextConvert]_vars

(***************************************************************************)
(* The scan of AnalyzeFood applied to drawn period lists (SpecResolve)     *)
(***************************************************************************)
MaxResolvePeriods == 3

\* whole-hour periods, two that overlap others, and one of six and a half hours
ResolvePeriods ==
    {[StartTime |-> T0000, Coefficient |-> R(1, 1), Hours |-> R(6, 1)],
     [StartTime |-> T0600, Coefficient |-> R(12, 10), Hours |-> R(6, 1)],
     [StartTime |-> T1200, Coefficient |-> R(8, 10), Hours |-> R(6, 1)],
     [StartTime |-> T0000, Coefficient |-> R(2, 1), Hours |-> R(12, 1)],
     [StartTime |-> T1200, Coefficient |-> R(3, 2), Hours |-> R(13, 2)]}

InitResolve ==
    /\ \E periods \in SeqsUpTo(MaxResolvePeriods, ResolvePeriods), hour \in 0..23 :
           calc = [stage |-> "periods", periods |-> periods, hour |-> hour]
    /\ tuner = IdleTuner
    /\ users = <<>>
    /\ now = 0
    /\ resp = [op |-> "none"]
    /\ inflight = IdleInflight
    /\ deletes = 0
    /\ service = IdleService
    /\ collection = <<>>

ApplyResolvePeriodCoefficient ==
    /\ calc.stage = "periods"
    /\ calc' = [stage |-> "resolved", periods |-> calc.periods, hour |-> calc.hour,
                out |-> ResolvePeriodCoefficient(calc.periods, calc.hour)]
    /\ UNCHANGED <<users, now, resp, tuner, inflight, deletes, service, collection>>

NextResolve == ApplyResolvePeriodCoefficient

SpecResolve == InitResolve /\ [][NextResolve]_vars

(***************************************************************************)
(* The handlers as a state machine (Spec)                                  *)
(***************************************************************************)
MaxReadings == 5

MaxNow == 168

\* the clock moves by a quarter of a day, or by the length of the window
TickHours == {6, 168}

\* quarter-day steps stay within the first hours of a day
MaxHourOfDay == 12

\* successful deletions in one run
MaxDeletes == 1

UserIds == {"u1"}

RequestUserIds == UserIds \cup {""}

SugarValues == {R(0, 1), R(8, 1)}

\* what the image analysis returns: an error, or a carbohydrate estimate
AIResults ==
    {[ok |-> FALSE, Carbs |-> Zero], [ok |-> TRUE, Carbs |-> R(50, 1)],
     [ok |-> TRUE, Carbs |-> R(-20, 1)]}

SyncValues == {<<>>, <<"x">>, <<"-", "1">>}

QuadrantSettings ==
    [TargetMin          |-> R(5, 1),
     TargetMax          |-> R(8, 1),
     IOBDuration        |-> R(4, 1),
     InsulinPeriods     |->
        <<[StartTime |-> T0000, Coefficient |-> R(1, 1), Hours |-> R(6, 1)],
          [StartTime |-> T0600, Coefficient |-> R(12, 10), Hours |-> R(6, 1)],
          [StartTime |-> T1200, Coefficient |-> R(1, 1), Hours |-> R(6, 1)],
          [StartTime |-> T1800, Coefficient |-> R(8, 10), Hours |-> R(6, 1)]>>,
     SensitivityPeriods |->
        <<[StartTime |-> T0000, Sensitivity |-> R(2, 1), Hours |-> R(12, 1)],
          [StartTime |-> T1200, Sensitivity |-> R(3, 1), Hours |-> R(12, 1)]>>,
     CarbRatioPeriods   |->
        <<[StartTime |-> T0000, Ratio |-> R(10, 1), Hours |-> R(12, 1)],
          [StartTime |-> T1200, Ratio |-> R(12, 1), Hours |-> R(12, 1)]>>]

\* a day that starts at 06:00 and whose last period runs over midnight
WrapSettings ==
    [TargetMin          |-> R(6, 1),
     TargetMax          |-> R(8, 1),
     IOBDuration        |-> R(4, 1),
     InsulinPeriods     |->
        <<[StartTime |-> T0600, Coefficient |-> R(12, 10), Hours |-> R(16, 1)],
          [StartTime |-> T2200, Coefficient |-> R(9, 10), Hours |-> R(8, 1)]>>,
     SensitivityPeriods |->
        <<[StartTime |-> T0600, Sensitivity |-> R(2, 1), Hours |-> R(16, 1)],
          [StartTime |-> T2200, Sensitivity |-> R(3, 1), Hours |-> R(8, 1)]>>,
     CarbRatioPeriods   |->
        <<[StartTime |-> T0600, Ratio |-> R(10, 1), Hours |-> R(16, 1)],
          [StartTime |-> T2200, Ratio |-> R(12, 1), Hours |-> R(8, 1)]>>]

NoPeriodsSettings == [QuadrantSettings EXCEPT !.InsulinPeriods = <<>>]

\* dosing coefficients for 06:00-18:00 only, one of them negative
GapSettings ==
    [QuadrantSettings EXCEPT !.InsulinPeriods =
        <<[StartTime |-> T0600, Coefficient |-> R(12, 10), Hours |-> R(6, 1)],
          [StartTime |-> T1200, Coefficient |-> R(-1, 2), Hours |-> R(6, 1)]>>]

SettingsInputs == {QuadrantSettings, WrapSettings, NoPeriodsSettings, GapSettings}

Init ==
    /\ users = <<>>
    /\ now = 0
    /\ resp = [op |-> "none"]
    /\ calc = IdleCalc
    /\ tuner = IdleTuner
    /\ inflight = IdleInflight
    /\ deletes = 0
    /\ service = IdleService
    /\ collection = <<>>

Idle == resp.op = "none"

Tick ==
    /\ Idle
    /\ \E d \in TickHours :
          /\ now + d <= MaxNow
          /\ d < 24 => HourOf(now) + d <= MaxHourOfDay
          /\ now' = now + d
    /\ UNCHANGED <<users, resp, calc, tuner, inflight, deletes, service, collection>>

GetUserSettings ==
    /\ Idle
    /\ \E userId \in UserIds :
          LET got == StoreGetUser(users, userId)
          IN  resp' = IF ~got.found
                      THEN [op |-> "GetUserSettings", code |-> 404]
                      ELSE [op |-> "GetUserSettings", code |-> 200,
                            settings |-> got.user.Settings]
    /\ UNCHANGED <<users, now, calc, tuner, inflight, deletes, service, collection>>

SaveUserSettings ==
    /\ Idle
    /\ \E userID \in RequestUserIds, settings \in SettingsInputs :
          LET rejected ==
                  \/ userID = ""
                  \/ FloatEq(settings.TargetMin, Zero)
                  \/ FloatEq(settings.TargetMax, Zero)
                  \/ FloatEq(settings.IOBDuration, Zero)
                  \/ Len(settings.InsulinPeriods) = 0
                  \/ Len(settings.SensitivityPeriods) = 0
                  \/ Len(settings.CarbRatioPeriods) = 0
          IN  /\ resp' = [op |-> "SaveUserSettings", userId |-> userID,
                          code |-> IF rejected THEN 400 ELSE 200,
                          \* what was submitted and what the store held
                          settings |-> settings,
                          before |-> StoreGetUser(users, userID)]
              /\ users' = IF rejected THEN users
                          ELSE StoreSaveUserSettings(users, userID, settings)
    /\ UNCHANGED <<now, calc, tuner, inflight, deletes, service, collection>>

\* SaveBloodSugar after its two request checks; the result is the store it
\* leaves and the response it sends
SaveBloodSugarOn(store, t, userID, value) ==
    LET got       == StoreGetUser(store, userID)
        settings0 == IF ~got.found THEN CreateDefaultSettings(userID)
                     ELSE got.user.Settings
        store1    == IF ~got.found THEN StoreCreateUser(store, userID, settings0)
                     ELSE store
        reading   == [Value |-> value, Timestamp |-> t]
        store2    == StoreAddBloodSugarReading(store1, userID, reading)
        recentReadings ==
            StoreGetRecentBloodSugarReadings(store2, userID, 0, t - WeekHours)
        tunerRuns == Len(recentReadings) >= 5 /\ RGt(settings0.TargetMin, Zero)
        legacyCoefficients == InsulinPeriodsToBaseCoefficients(settings0.InsulinPeriods)
        adjustedLegacyCoefficients ==
            AdjustInsulinCoefficients(recentReadings, settings0.TargetMin,
                                      legacyCoefficients)
        adjustedPeriods == ConvertToInsulinPeriods(adjustedLegacyCoefficients)
        changed   == tunerRuns
                     /\ ~areInsulinPeriodsEqual(settings0.InsulinPeriods, adjustedPeriods)
        settings1 == IF changed THEN [settings0 EXCEPT !.InsulinPeriods = adjustedPeriods]
                     ELSE settings0
        store3    == IF changed THEN StoreUpdateUserSettings(store2, userID, settings1)
                     ELSE store2
    IN  [store |-> store3,
         resp  |-> [op |-> "SaveBloodSugar", code |-> 200, userId |-> userID,
                    value |-> value, status |-> BloodSugarStatus(value),
                    timestamp |-> t,
                    coefficientsAdjusted |-> changed,
                    targetLevel |-> settings1.TargetMin,
                    \* what the request found and what the tuner proposed
                    settingsBefore |-> settings0,
                    userCreated |-> ~got.found,
                    tunerRan |-> tunerRuns,
                    adjustedPeriods |-> IF tunerRuns THEN adjustedPeriods ELSE <<>>]]

SaveBloodSugarAccepted(userID, value) == SaveBloodSugarOn(users, now, userID, value)

SaveBloodSugar ==
    /\ Idle
    /\ \E userID \in RequestUserIds, value \in SugarValues :
          IF userID = "" \/ RLe(value, Zero)
          THEN /\ resp' = [op |-> "SaveBloodSugar", code |-> 400, userId |-> userID]
               /\ users' = users
          ELSE /\ (userID \in DOMAIN users =>
                      Len(users[userID].BloodSugarReadings) < MaxReadings)
               /\ LET result == SaveBloodSugarAccepted(userID, value)
                  IN  /\ resp' = result.resp
                      /\ users' = result.store
    /\ UNCHANGED <<now, calc, tuner, inflight, deletes, service, collection>>

GetBloodSugarReadings ==
    /\ Idle
    /\ \E userId \in UserIds, limit \in {0, 1} :
          resp' = IF userId \notin DOMAIN users
                  THEN [op |-> "GetBloodSugarReadings", code |-> 500]
                  ELSE [op |-> "GetBloodSugarReadings", code |-> 200,
                        readings |-> StoreGetRecentBloodSugarReadings(
                                         users, userId, limit, now - WeekHours)]
    /\ UNCHANGED <<users, now, calc, tuner, inflight, deletes, service, collection>>

\* AnalyzeFood from the user lookup on, for a request that carried a photo:
\* got is what GetUser answered, lastReading what GetRecentBloodSugarReadings
\* answered for limit 1
AnalyzeFoodDoseWith(got, lastReading, userId, carbs) ==
    LET userSettings == IF got.found THEN got.user.Settings
                        ELSE CreateDefaultSettings(userId)
        hour         == HourOf(now)
        periodCoefficient == ResolvePeriodCoefficient(userSettings.InsulinPeriods, hour)
        mealInsulin  == RMul(RDiv(carbs, userSettings.CarbRatioPeriods[1].Ratio),
                             periodCoefficient)
        corrects     == /\ Len(lastReading) > 0
                        /\ RGt(userSettings.TargetMin, Zero)
                        /\ RGt(userSettings.SensitivityPeriods[1].Sensitivity, Zero)
        bloodSugarDiff == RSub(lastReading[1].Value, userSettings.TargetMin)
        correctionInsulin ==
            IF corrects /\ RGt(bloodSugarDiff, Zero)
            THEN RDiv(bloodSugarDiff, userSettings.SensitivityPeriods[1].Sensitivity)
            ELSE Zero
        totalInsulin == RAdd(mealInsulin, correctionInsulin)
    IN  IF Len(userSettings.CarbRatioPeriods) = 0
        \* index out of range: the handler panics and no response is written
        THEN [op |-> "AnalyzeFood", code |-> 0, userId |-> userId]
        ELSE [op |-> "AnalyzeFood", code |-> 200, userId |-> userId,
              carbs |-> carbs, hour |-> hour,
              lastReading |-> lastReading,
              mealInsulin |-> mealInsulin,
              correctionInsulin |-> correctionInsulin,
              totalInsulin |-> totalInsulin,
              insulinDose |-> totalInsulin,
              periodCoefficient |-> periodCoefficient,
              \* the ratio and the sensitivity the computation read
              carbRatio |-> userSettings.CarbRatioPeriods[1].Ratio,
              sensitivity |-> userSettings.SensitivityPeriods[1].Sensitivity]

AnalyzeFoodDose(userId, carbs) ==
    AnalyzeFoodDoseWith(StoreGetUser(users, userId),
                        IF userId \in DOMAIN users
                        THEN StoreGetRecentBloodSugarReadings(users, userId, 1,
                                                              now - WeekHours)
                        ELSE <<>>,
                        userId, carbs)

AnalyzeFood ==
    /\ Idle
    /\ \E userId \in UserIds, photoProvided \in BOOLEAN, ai \in AIResults :
          resp' = IF ~photoProvided
                  THEN [op |-> "AnalyzeFood", code |-> 400, userId |-> userId]
                  ELSE IF ~ai.ok
                  THEN [op |-> "AnalyzeFood", code |-> 500, userId |-> userId]
                  ELSE AnalyzeFoodDose(userId, ai.Carbs)
    /\ UNCHANGED <<users, now, calc, tuner, inflight, deletes, service, collection>>

SyncLibre ==
    /\ Idle
    /\ \E userID \in RequestUserIds, method \in {"", "manual", "libreview"},
          text \in SyncValues :
          LET parsed == ParseFloat(text)
              code == IF userID = "" \/ method = "" THEN 400
                      ELSE IF userID \notin DOMAIN users THEN 404
                      ELSE IF method # "manual" THEN 400
                      ELSE IF text = <<>> THEN 400
                      ELSE IF ~parsed.ok THEN 400
                      ELSE 200
              reading == [Value |-> parsed.value, Timestamp |-> now]
          IN  /\ code = 200 => Len(users[userID].BloodSugarReadings) < MaxReadings
              /\ resp' = IF code = 200
                         THEN [op |-> "SyncLibre", code |-> 200, userId |-> userID,
                               reading |-> reading]
                         ELSE [op |-> "SyncLibre", code |-> code, userId |-> userID]
              /\ users' = IF code = 200
                          THEN StoreAddBloodSugarReading(users, userID, reading)
                          ELSE users
    /\ UNCHANGED <<now, calc, tuner, inflight, deletes, service, collection>>

\* a request timestamp is missing, not RFC 3339, or the text of an instant
DeleteTimestamps ==
    {[kind |-> "missing", instant |-> 0], [kind |-> "malformed", instant |-> 0]}
        \cup {[kind |-> "rfc3339", instant |-> t] : t \in {0, 6}}

DeleteBloodSugar ==
    /\ Idle
    /\ \E userID \in RequestUserIds \cup DOMAIN users, timestamp \in DeleteTimestamps :
          LET known == userID \in DOMAIN users
              i     == IF known /\ timestamp.kind = "rfc3339"
                       THEN FirstWithTimestamp(users[userID].BloodSugarReadings,
                                               timestamp.instant)
                       ELSE 0
              code  == IF userID = "" \/ timestamp.kind = "missing" THEN 400
                       ELSE IF timestamp.kind = "malformed" THEN 500
                       ELSE IF ~known THEN 404
                       ELSE IF i = 0 THEN 404
                       ELSE 200
          IN  /\ code = 200 => deletes < MaxDeletes
              /\ resp' = [op |-> "DeleteBloodSugar", code |-> code, userId |-> userID,
                          \* what was asked for and what the store held
                          timestamp |-> timestamp,
                          before |-> users]
              /\ users' = IF code = 200
                          THEN StoreDeleteBloodSugarReading(users, userID, i)
                          ELSE users
              /\ deletes' = IF code = 200 THEN deletes + 1 ELSE deletes
    /\ UNCHANGED <<now, calc, tuner, inflight, service, collection>>

\* the response has been written and the server takes the next request
ResponseSent ==
    /\ ~Idle
    /\ resp' = [op |-> "none"]
    /\ UNCHANGED <<users, now, calc, tuner, inflight, deletes, service, collection>>

Next ==
    \/ Tick
    \/ ResponseSent
    \/ GetUserSettings
    \/ SaveUserSettings
    \/ SaveBloodSugar
    \/ GetBloodSugarReadings
    \/ AnalyzeFood
    \/ SyncLibre
    \/ DeleteBloodSugar

Spec == Init /\ [][Next]_vars

(***************************************************************************)
(* The handlers over the MongoDB store (SpecMongo)                         *)
(***************************************************************************)
InitMongo ==
    /\ collection = <<>>
    /\ now = 0
    /\ resp = [op |-> "none"]
    /\ calc = IdleCalc
    /\ tuner = IdleTuner
    /\ inflight = IdleInflight
    /\ deletes = 0
    /\ service = IdleService
    /\ users = <<>>

GetUserSettingsMongo ==
    /\ Idle
    /\ \E userId \in UserIds :
          LET got == MongoGetUser(collection, userId)
          IN  resp' = IF ~got.found
                      THEN [op |-> "GetUserSettings", code |-> 404]
                      ELSE [op |-> "GetUserSettings", code |-> 200,
                            settings |-> got.user.Settings]
    /\ UNCHANGED <<users, now, calc, tuner, inflight, deletes, service, collection>>

SaveUserSettingsMongo ==
    /\ Idle
    /\ \E userID \in RequestUserIds, settings \in SettingsInputs :
          LET rejected ==
                  \/ userID = ""
                  \/ FloatEq(settings.TargetMin, Zero)
                  \/ FloatEq(settings.TargetMax, Zero)
                  \/ FloatEq(settings.IOBDuration, Zero)
                  \/ Len(settings.InsulinPeriods) = 0
                  \/ Len(settings.SensitivityPeriods) = 0
                  \/ Len(settings.CarbRatioPeriods) = 0
          IN  /\ resp' = [op |-> "SaveUserSettings", userId |-> userID,
                          code |-> IF rejected THEN 400 ELSE 200,
                          settings |-> settings,
                          before |-> MongoGetUser(collection, userID)]
              /\ collection' = IF rejected THEN collection
                               ELSE MongoSaveUserSettings(collection, userID, settings)
    /\ UNCHANGED <<users, now, calc, tuner, inflight, deletes, service>>

\* SaveBloodSugar after its two request checks, over the collection
SaveBloodSugarOnMongo(coll, t, userID, value) ==
    LET got       == MongoGetUser(coll, userID)
        settings0 == IF ~got.found THEN CreateDefaultSettings(userID)
                     ELSE got.user.Settings
        coll1     == IF ~got.found THEN MongoCreateUser(coll, userID, settings0)
                     ELSE coll
        reading   == [Value |-> value, Timestamp |-> t]
        coll2     == MongoAddBloodSugarReading(coll1, userID, reading)
        recentReadings ==
            MongoGetRecentBloodSugarReadings(coll2, userID, 0, t - WeekHours)
        tunerRuns == Len(recentReadings) >= 5 /\ RGt(settings0.TargetMin, Zero)
        adjustedPeriods ==
            ConvertToInsulinPeriods(
                AdjustInsulinCoefficients(
                    recentReadings, settings0.TargetMin,
                    InsulinPeriodsToBaseCoefficients(settings0.InsulinPeriods)))
        changed   == tunerRuns
                     /\ ~areInsulinPeriodsEqual(settings0.InsulinPeriods, adjustedPeriods)
        settings1 == IF changed THEN [settings0 EXCEPT !.InsulinPeriods = adjustedPeriods]
                     ELSE settings0
        coll3     == IF changed THEN MongoUpdateUserSettings(coll2, userID, settings1)
                     ELSE coll2
    IN  [store |-> coll3,
         resp  |-> [op |-> "SaveBloodSugar", code |-> 200, userId |-> userID,
                    value |-> value, status |-> BloodSugarStatus(value),
                    timestamp |-> t,
                    coefficientsAdjusted |-> changed,
                    targetLevel |-> settings1.TargetMin,
                    userCreated |-> ~got.found]]

SaveBloodSugarMongo ==
    /\ Idle
    /\ \E userID \in RequestUserIds, value \in SugarValues :
          IF userID = "" \/ RLe(value, Zero)
          THEN /\ resp' = [op |-> "SaveBloodSugar", code |-> 400, userId |-> userID]
               /\ collection' = collection
          ELSE /\ (userID \in DOMAIN collection =>
                      Len(collection[userID].BloodSugarReadings) < MaxReadings)
               /\ LET result == SaveBloodSugarOnMongo(collection, now, userID, value)
                  IN  /\ resp' = result.resp
                      /\ collection' = result.store
    /\ UNCHANGED <<users, now, calc, tuner, inflight, deletes, service>>

AnalyzeFoodMongo ==
    /\ Idle
    /\ \E userId \in UserIds, photoProvided \in BOOLEAN, ai \in AIResults :
          resp' = IF ~photoProvided
                  THEN [op |-> "AnalyzeFood", code |-> 400, userId |-> userId]
                  ELSE IF ~ai.ok
                  THEN [op |-> "AnalyzeFood", code |-> 500, userId |-> userId]
                  ELSE AnalyzeFoodDoseWith(
                           MongoGetUser(collection, userId),
                           MongoGetRecentBloodSugarReadings(collection, userId, 1,
                                                            now - WeekHours),
                           userId, ai.Carbs)
    /\ UNCHANGED <<users, now, calc, tuner, inflight, deletes, service, collection>>

NextMongo ==
    \/ ResponseSent
    \/ GetUserSettingsMongo
    \/ SaveUserSettingsMongo
    \/ SaveBloodSugarMongo
    \/ AnalyzeFoodMongo

SpecMongo == InitMongo /\ [][NextMongo]_vars

(***************************************************************************)
(* The same calls made on the in-memory store and on the MongoDB store     *)
(* (SpecStores): users is the in-memory map, collection the documents      *)
(***************************************************************************)
MaxStoreNow == 2

MaxStoreReadings == 3

StoreUserIds == {"u1"}

StoreValues == {R(5, 1), R(8, 1)}

StoreLimits == {0, 1, 2}

InitStores ==
    /\ users = <<>>
    /\ collection = <<>>
    /\ now = 0
    /\ resp = [op |-> "none"]
    /\ calc = IdleCalc
    /\ tuner = IdleTuner
    /\ inflight = IdleInflight
    /\ deletes = 0
    /\ service = IdleService

\* time passes between calls
StoresTick ==
    /\ Idle
    /\ now < MaxStoreNow
    /\ now' = now + 1
    /\ UNCHANGED <<users, collection, resp, calc, tuner, inflight, deletes, service>>

StoresCreateUser ==
    /\ Idle
    /\ \E userID \in StoreUserIds :
          /\ users' = IF userID \in DOMAIN users THEN users
                      ELSE StoreCreateUser(users, userID, CreateDefaultSettings(userID))
          /\ collection' = MongoCreateUser(collection, userID,
                                           CreateDefaultSettings(userID))
          /\ resp' = [op |-> "CreateUser", userId |-> userID,
                      memoryErr |-> IF userID \in DOMAIN users
                                    THEN "user already exists" ELSE ""]
    /\ UNCHANGED <<now, calc, tuner, inflight, deletes, service>>

StoresAddBloodSugarReading ==
    /\ Idle
    /\ \E userID \in StoreUserIds, value \in StoreValues :
          LET reading == [Value |-> value, Timestamp |-> now]
          IN  /\ userID \in DOMAIN collection =>
                    Len(collection[userID].BloodSugarReadings) < MaxStoreReadings
              /\ userID \in DOMAIN users =>
                    Len(users[userID].BloodSugarReadings) < MaxStoreReadings
              /\ users' = IF userID \in DOMAIN users
                          THEN StoreAddBloodSugarReading(users, userID, reading)
                          ELSE users
              /\ collection' = MongoAddBloodSugarReading(collection, userID, reading)
              /\ resp' = [op |-> "AddBloodSugarReading", userId |-> userID,
                          memoryErr |-> IF userID \in DOMAIN users
                                        THEN "" ELSE "user not found"]
    /\ UNCHANGED <<now, calc, tuner, inflight, deletes, service>>

StoresDeleteBloodSugarReading ==
    /\ Idle
    /\ \E userID \in StoreUserIds, t \in 0..MaxStoreNow :
          LET i == IF userID \in DOMAIN users
                   THEN FirstWithTimestamp(users[userID].BloodSugarReadings, t)
                   ELSE 0
              deleted == MongoDeleteBloodSugarReading(collection, userID, t)
          IN  /\ users' = IF i # 0 THEN StoreDeleteBloodSugarReading(users, userID, i)
                          ELSE users
              /\ collection' = deleted.coll
              /\ resp' = [op |-> "DeleteBloodSugarReading", userId |-> userID,
                          timestamp |-> t,
                          memoryErr |->
                              IF userID \notin DOMAIN users THEN "user not found"
                              ELSE IF i = 0
                              THEN "no reading found with the specified timestamp"
                              ELSE "",
                          mongoErr |-> deleted.err]
    /\ UNCHANGED <<now, calc, tuner, inflight, deletes, service>>

StoresGetRecentBloodSugarReadings ==
    /\ Idle
    /\ \E userID \in StoreUserIds, limit \in StoreLimits, startDate \in 0..MaxStoreNow :
          resp' = [op |-> "GetRecentBloodSugarReadings", userId |-> userID,
                   limit |-> limit, startDate |-> startDate,
                   memory |-> IF userID \in DOMAIN users
                              THEN StoreGetRecentBloodSugarReadings(users, userID, limit,
                                                                    startDate)
                              ELSE <<>>,
                   memoryErr |-> IF userID \in DOMAIN users THEN "" ELSE "user not found",
                   mongo |-> MongoGetRecentBloodSugarReadings(collection, userID, limit,
                                                              startDate)]
    /\ UNCHANGED <<users, collection, now, calc, tuner, inflight, deletes, service>>

NextStores ==
    \/ StoresTick
    \/ StoresCreateUser
    \/ StoresAddBloodSugarReading
    \/ StoresDeleteBloodSugarReading
    \/ StoresGetRecentBloodSugarReadings
    \/ AnalyzeFood
    \/ ResponseSent

SpecStores == InitStores /\ [][NextStores]_vars

(***************************************************************************)
(* DeleteBloodSugar over drawn stores of two users (SpecDelete)            *)
(***************************************************************************)
MaxStoredReadings == 3

DeleteReadingLists ==
    UNION {NewestFirst(n, {0, 6}, {R(8, 1)}) : n \in 0..MaxStoredReadings}

DeleteStores ==
    UNION {[ids -> {[Settings |-> CreateDefaultSettings(""), BloodSugarReadings |-> rs] :
                       rs \in DeleteReadingLists}] :
           ids \in SUBSET {"u1", "u2"}}

InitDelete ==
    /\ users \in DeleteStores
    /\ now = 6
    /\ resp = [op |-> "none"]
    /\ calc = IdleCalc
    /\ tuner = IdleTuner
    /\ inflight = IdleInflight
    /\ deletes = 0
    /\ service = IdleService
    /\ collection = <<>>

NextDelete == DeleteBloodSugar \/ ResponseSent

SpecDelete == InitDelete /\ [][NextDelete]_vars

(***************************************************************************)
(* Requests served concurrently, one store call at a time (SpecConc)       *)
(***************************************************************************)
\* two SaveBloodSugar requests and one SaveUserSettings request
Submissions == {"A", "B"}

Requests == Submissions \cup {"S"}

ConcUser == "u1"

ConcValue == R(8, 1)

ConcNow == 6

\* readings the user holds before the requests arrive
MaxPriorReadings == 4

PriorReadings(n) == [i \in 1..n |-> [Value |-> ConcValue, Timestamp |-> ConcNow]]

ConcStores ==
    {<<>>} \cup
    {[u \in {ConcUser} |-> [Settings |-> QuadrantSettings,
                            BloodSugarReadings |-> PriorReadings(n)]] :
     n \in 3..MaxPriorReadings}

\* a request that has not made its first store call; settings stands for the
\* handler's own copy of user.Settings
NewRequest ==
    [pc |-> "start", live |-> FALSE, settings |-> CreateDefaultSettings(ConcUser),
     recentReadings |-> <<>>, code |-> 0]

InitConc ==
    /\ users \in ConcStores
    /\ \E withSave \in BOOLEAN :
          inflight = [start |-> users,
                      req   |-> [p \in Requests |->
                                   IF p = "S" /\ ~withSave
                                   THEN [NewRequest EXCEPT !.pc = "absent"]
                                   ELSE NewRequest]]
    /\ now = ConcNow
    /\ resp = [op |-> "none"]
    /\ calc = IdleCalc
    /\ tuner = IdleTuner
    /\ deletes = 0
    /\ service = IdleService
    /\ collection = <<>>

ConcStep(p, request) ==
    inflight' = [inflight EXCEPT !.req[p] = request]

ConcFrame == UNCHANGED <<now, resp, calc, tuner, deletes, service, collection>>

\* h.storage.GetUser: a pointer to the stored user, or nil
ConcGetUser(p) ==
    /\ p \in Submissions
    /\ inflight.req[p].pc = "start"
    /\ IF StoreGetUser(users, ConcUser).found
       THEN ConcStep(p, [inflight.req[p] EXCEPT !.pc = "add", !.live = TRUE])
       ELSE ConcStep(p, [inflight.req[p] EXCEPT !.pc = "create", !.live = FALSE])
    /\ UNCHANGED users
    /\ ConcFrame

\* h.storage.CreateUser: fails when the user has appeared in the meantime
ConcCreateUser(p) ==
    /\ p \in Submissions
    /\ inflight.req[p].pc = "create"
    /\ IF ConcUser \in DOMAIN users
       THEN /\ ConcStep(p, [inflight.req[p] EXCEPT !.pc = "done", !.code = 500])
            /\ UNCHANGED users
       ELSE /\ ConcStep(p, [inflight.req[p] EXCEPT !.pc = "add"])
            /\ users' = StoreCreateUser(users, ConcUser, inflight.req[p].settings)
    /\ ConcFrame

ConcAddReading(p) ==
    /\ p \in Submissions
    /\ inflight.req[p].pc = "add"
    /\ users' = StoreAddBloodSugarReading(users, ConcUser,
                                          [Value |-> ConcValue, Timestamp |-> now])
    /\ ConcStep(p, [inflight.req[p] EXCEPT !.pc = "recent"])
    /\ ConcFrame

ConcGetRecent(p) ==
    /\ p \in Submissions
    /\ inflight.req[p].pc = "recent"
    /\ ConcStep(p, [inflight.req[p] EXCEPT
                       !.pc = "compute",
                       !.recentReadings =
                           StoreGetRecentBloodSugarReadings(users, ConcUser, 0,
                                                            now - WeekHours)])
    /\ UNCHANGED users
    /\ ConcFrame

\* the unlocked part of the handler: it reads the settings through its user
\* pointer, runs the tuner, and on a difference assigns the new periods
\* through the pointer and copies the settings for UpdateUserSettings
ConcCompute(p) ==
    /\ p \in Submissions
    /\ inflight.req[p].pc = "compute"
    /\ LET r        == inflight.req[p]
           settings == IF r.live THEN users[ConcUser].Settings ELSE r.settings
           tunerRuns == Len(r.recentReadings) >= 5 /\ RGt(settings.TargetMin, Zero)
           adjustedPeriods ==
               ConvertToInsulinPeriods(
                   AdjustInsulinCoefficients(
                       r.recentReadings, settings.TargetMin,
                       InsulinPeriodsToBaseCoefficients(settings.InsulinPeriods)))
           changed  == tunerRuns
                       /\ ~areInsulinPeriodsEqual(settings.InsulinPeriods, adjustedPeriods)
           assigned == [settings EXCEPT !.InsulinPeriods = adjustedPeriods]
       IN  IF ~changed
           THEN /\ ConcStep(p, [r EXCEPT !.pc = "done", !.code = 200])
                /\ UNCHANGED users
           ELSE /\ ConcStep(p, [r EXCEPT !.pc = "update", !.settings = assigned])
                /\ users' = IF r.live
                            THEN [users EXCEPT ![ConcUser].Settings = assigned]
                            ELSE users
    /\ ConcFrame

ConcUpdateSettings(p) ==
    /\ p \in Submissions
    /\ inflight.req[p].pc = "update"
    /\ users' = StoreUpdateUserSettings(users, ConcUser, inflight.req[p].settings)
    /\ ConcStep(p, [inflight.req[p] EXCEPT !.pc = "done", !.code = 200])
    /\ ConcFrame

\* the settings the concurrent SaveUserSettings request carries
ConcSettings == WrapSettings

ConcSaveUserSettings ==
    /\ inflight.req["S"].pc = "start"
    /\ users' = StoreSaveUserSettings(users, ConcUser, ConcSettings)
    /\ ConcStep("S", [inflight.req["S"] EXCEPT !.pc = "done", !.code = 200])
    /\ ConcFrame

NextConc ==
    \/ \E p \in Submissions : ConcGetUser(p)
    \/ \E p \in Submissions : ConcCreateUser(p)
    \/ \E p \in Submissions : ConcAddReading(p)
    \/ \E p \in Submissions : ConcGetRecent(p)
    \/ \E p \in Submissions : ConcCompute(p)
    \/ \E p \in Submissions : ConcUpdateSettings(p)
    \/ ConcSaveUserSettings

SpecConc == InitConc /\ [][NextConc]_vars

(***************************************************************************)
(* Properties of the tuner (SpecTuner)                                     *)
(***************************************************************************)
Quadrants == {"Morning", "Afternoon", "Evening", "Night"}

\* the hours of the day that the design assigns to each quadrant
QuadrantHours ==
    [Morning |-> 6..11, Afternoon |-> 12..17, Evening |-> 18..21,
     Night |-> {22, 23} \cup 0..5]

BucketNameOf ==
    [Morning |-> "morning", Afternoon |-> "afternoon", Evening |-> "evening",
     Night |-> "night"]

ReadingInQuadrant(r, q) == HourOf(r.Timestamp) \in QuadrantHours[q]

ValuesInQuadrant(readings, q) ==
    LET sel == SelectSeq(readings, LAMBDA r : ReadingInQuadrant(r, q))
    IN  [i \in 1..Len(sel) |-> sel[i].Value]

TunerRan == tuner.stage \in {"adjusted", "again"}

\* the average of the values lies strictly less than 1.0 from the target
AverageNearTarget(values, targetBG) ==
    LET n    == Len(values)
        sum  == SumValues(values, Zero)
        diff == RAbs(RSub(sum, RMul(R(n, 1), targetBG)))
    IN  RLt(diff, R(n, 1))

PositiveInputs ==
    /\ \A i \in 1..Len(tuner.readings) : RGt(tuner.readings[i].Value, Zero)
    /\ RGt(tuner.targetBG, Zero)
    /\ \A q \in Quadrants : RGt(tuner.current[q], Zero)

\* C4: with positive readings, target and input coefficients, one invocation
\* of AdjustInsulinCoefficients leaves every quadrant coefficient c' within
\* 0.8*c <= c' <= 1.2*c of its input coefficient c.
C4_AdjustmentWithinTwentyPercent ==
    (TunerRan /\ PositiveInputs) =>
        \A q \in Quadrants :
            /\ RLe(RMul(R(8, 10), tuner.current[q]), tuner.out[q])
            /\ RLe(tuner.out[q], RMul(R(12, 10), tuner.current[q]))

\* a run in which one quadrant is cut by the full 20% and another raised by it
C4_Witness ==
    /\ tuner.stage = "adjusted"
    /\ PositiveInputs
    /\ tuner.out.Morning = RMul(R(8, 10), tuner.current.Morning)
    /\ tuner.out.Night = RMul(R(12, 10), tuner.current.Night)

\* C5: called with fewer than 5 readings, AdjustInsulinCoefficients returns
\* its input coefficients in all four quadrants.
C5_FewerThanFiveReadingsNoOp ==
    (TunerRan /\ Len(tuner.readings) < 5) => tuner.out = tuner.current

\* four readings, three of them in one quadrant and far from the target
C5_Witness ==
    /\ tuner.stage = "adjusted"
    /\ Len(tuner.readings) = 4
    /\ \E q \in Quadrants :
          LET vs == ValuesInQuadrant(tuner.readings, q)
          IN  Len(vs) >= 3 /\ ~AverageNearTarget(vs, tuner.targetBG)
    /\ tuner.out = tuner.current

\* C6: a quadrant whose bucket holds fewer than 3 readings keeps its input
\* coefficient, whatever happens to the other quadrants.
C6_SmallBucketKeepsCoefficient ==
    TunerRan =>
        \A q \in Quadrants :
            Len(ValuesInQuadrant(tuner.readings, q)) < 3 =>
                tuner.out[q] = tuner.current[q]

\* one quadrant with two far-off readings is kept while another is adjusted
C6_Witness ==
    /\ tuner.stage = "adjusted"
    /\ \E q, p \in Quadrants :
          LET vs == ValuesInQuadrant(tuner.readings, q)
          IN  /\ Len(vs) = 2
              /\ ~AverageNearTarget(vs, tuner.targetBG)
              /\ tuner.out[q] = tuner.current[q]
              /\ tuner.out[p] # tuner.current[p]

AllQualifyingNearTarget ==
    \A q \in Quadrants :
        LET vs == ValuesInQuadrant(tuner.readings, q)
        IN  Len(vs) >= 3 => AverageNearTarget(vs, tuner.targetBG)

\* C7: when the average of every bucket with 3 or more readings is less
\* than 1.0 away from the target, AdjustInsulinCoefficients returns its input
\* unchanged, on the first run and on a second run over its own output.
C7_IdempotentNearTarget ==
    (TunerRan /\ AllQualifyingNearTarget) => tuner.out = tuner.current

\* a second run over a qualifying bucket whose average is off the target by
\* less than 1.0
C7_Witness ==
    /\ tuner.stage = "again"
    /\ AllQualifyingNearTarget
    /\ \E q \in Quadrants :
          LET vs == ValuesInQuadrant(tuner.readings, q)
          IN  /\ Len(vs) >= 3
              /\ calculateAverage(vs) # tuner.targetBG
    /\ tuner.out = tuner.current

\* C8: the tuner puts every reading in exactly one bucket, chosen by the hour
\* of its timestamp alone: [6,12) morning, [12,18) afternoon, [18,22) evening,
\* every other hour night.
C8_FixedHourBuckets ==
    (TunerRan /\ Len(tuner.readings) >= 5) =>
        /\ \A q \in Quadrants :
              tuner.buckets[BucketNameOf[q]] = ValuesInQuadrant(tuner.readings, q)
        /\ Len(tuner.buckets["morning"]) + Len(tuner.buckets["afternoon"])
             + Len(tuner.buckets["evening"]) + Len(tuner.buckets["night"])
             = Len(tuner.readings)

\* readings at hour 23 and at hour 19 land in night and in evening
C8_Witness ==
    /\ tuner.stage = "adjusted"
    /\ Len(tuner.readings) >= 5
    /\ \E i, j \in 1..Len(tuner.readings) :
          /\ HourOf(tuner.readings[i].Timestamp) = 23
          /\ HourOf(tuner.readings[j].Timestamp) = 19
    /\ Len(tuner.buckets["night"]) >= 1
    /\ Len(tuner.buckets["evening"]) >= 1

(***************************************************************************)
(* Properties of the calculator and of the handlers                        *)
(***************************************************************************)
AnalyzeFoodAnswered == resp.op = "AnalyzeFood" /\ resp.code = 200

\* the settings AnalyzeFood worked with: the user's, or the defaults
SettingsUsed ==
    IF resp.userId \in DOMAIN users THEN users[resp.userId].Settings
    ELSE CreateDefaultSettings(resp.userId)

\* a period that starts on a whole hour of the day and lasts whole hours
WholeHourPeriod(p) ==
    /\ Len(p.StartTime) = 5
    /\ SubSeq(p.StartTime, 3, 5) = <<":", "0", "0">>
    /\ IsDigit(p.StartTime[1]) /\ IsDigit(p.StartTime[2])
    /\ StartHourOf(p.StartTime) \in 0..23
    /\ p.Hours[2] = 1 /\ p.Hours[1] \in 1..24

\* hour h lies in the period's range, which may run over midnight
PeriodCovers(p, h) ==
    \E k \in 0..(p.Hours[1] - 1) : (StartHourOf(p.StartTime) + k) % 24 = h

\* the periods tile the 24-hour day: every hour lies in exactly one of them
TilesDay(periods) ==
    /\ Len(periods) > 0
    /\ \A i \in 1..Len(periods) : WholeHourPeriod(periods[i])
    /\ \A h \in 0..23 :
          Cardinality({i \in 1..Len(periods) : PeriodCovers(periods[i], h)}) = 1

\* C1: for every hour h and every dosing-coefficient set that tiles the day
\* (a last period running over midnight included), the coefficient the dose
\* request resolves is that of the one period whose range contains h.
C1_ResolverReturnsCoveringPeriod ==
    (AnalyzeFoodAnswered /\ TilesDay(SettingsUsed.InsulinPeriods)) =>
        \E i \in 1..Len(SettingsUsed.InsulinPeriods) :
            /\ PeriodCovers(SettingsUsed.InsulinPeriods[i], resp.hour)
            /\ resp.periodCoefficient = SettingsUsed.InsulinPeriods[i].Coefficient

\* C2: correction insulin is never negative: with currentBG <= targetBG and
\* sensitivity > 0 it is exactly 0, in CalculateCorrectionInsulin and in the
\* dose that AnalyzeFood computes.
C2_CorrectionZeroAtOrBelowTarget ==
    /\ (calc.stage = "done" /\ calc.fn = "correction"
            /\ RLe(calc.a, calc.b) /\ RGt(calc.c, Zero))
        => calc.out = Zero
    /\ (AnalyzeFoodAnswered /\ Len(resp.lastReading) > 0
            /\ RLe(resp.lastReading[1].Value, SettingsUsed.TargetMin)
            /\ RGt(SettingsUsed.SensitivityPeriods[1].Sensitivity, Zero))
        => resp.correctionInsulin = Zero

\* C3: the total dose is max(0, mealInsulin + correctionInsulin -
\* insulinOnBoard) and never negative, in CalculateTotalInsulin and in the
\* totalInsulin / insulinDose of AnalyzeFood (which takes no insulin on board).
C3_TotalDoseFlooredAtZero ==
    /\ (calc.stage = "done" /\ calc.fn = "total")
        => /\ calc.out = RMax(Zero, RSub(RAdd(calc.a, calc.b), calc.c))
           /\ RGe(calc.out, Zero)
    /\ AnalyzeFoodAnswered
        => /\ resp.totalInsulin
                = RMax(Zero, RAdd(resp.mealInsulin, resp.correctionInsulin))
           /\ resp.insulinDose = resp.totalInsulin
           /\ RGe(resp.totalInsulin, Zero)

SaveBloodSugarAnswered == resp.op = "SaveBloodSugar" /\ resp.code = 200

StoredSettings == users[resp.userId].Settings

WindowReadings ==
    SelectSeq(users[resp.userId].BloodSugarReadings,
              LAMBDA r : r.Timestamp >= resp.timestamp - WeekHours)

InsufficientData ==
    \/ Len(WindowReadings) < 5
    \/ \A q \in Quadrants : Len(ValuesInQuadrant(WindowReadings, q)) < 3

\* C10: with fewer than 5 readings in the 7-day window, or no quadrant bucket
\* of 3 or more readings, SaveBloodSugar succeeds, leaves the stored
\* dosing-coefficient periods as they were, whatever their shape, and reports
\* coefficientsAdjusted = false.
C10_InsufficientDataIsNoOp ==
    (SaveBloodSugarAnswered /\ InsufficientData) =>
        /\ StoredSettings.InsulinPeriods = resp.settingsBefore.InsulinPeriods
        /\ ~resp.coefficientsAdjusted

\* the sum of the durations of a period set
RECURSIVE SumHours(_)
SumHours(periods) ==
    IF periods = <<>> THEN Zero
    ELSE RAdd(Head(periods).Hours, SumHours(Tail(periods)))

SumsToDay(periods) == Len(periods) > 0 /\ SumHours(periods) = R(24, 1)

ValidPeriodSets(settings) ==
    /\ SumsToDay(settings.InsulinPeriods)
    /\ SumsToDay(settings.SensitivityPeriods)
    /\ SumsToDay(settings.CarbRatioPeriods)

SaveUserSettingsAnswered == resp.op = "SaveUserSettings"

\* C11: a settings write in which one of the three period sets is empty or
\* does not sum to 24 hours is rejected and leaves the user's record as it
\* was; no stored period set ever has hours that do not sum to 24.
C11_InvalidPeriodSetsNeverStored ==
    /\ (SaveUserSettingsAnswered /\ ~ValidPeriodSets(resp.settings)) =>
            /\ resp.code = 400
            /\ StoreGetUser(users, resp.userId) = resp.before
    /\ \A u \in DOMAIN users : ValidPeriodSets(users[u].Settings)

\* the hours from a row's start to its end on the clock; an end at or before
\* the start is on the next day
RowDuration(row) == (StartHourOf(row.end) - StartHourOf(row.start)) % 24

RECURSIVE SumRowDurations(_)
SumRowDurations(rows) ==
    IF rows = <<>> THEN 0 ELSE RowDuration(Head(rows)) + SumRowDurations(Tail(rows))

\* C12: validatePeriods answers ok exactly when the durations of the periods
\* sum to 24 hours (an empty set is not ok), and when it is not ok the total
\* it reports is the sum of the durations.
C12_ValidationOkExactlyAtTwentyFourHours ==
    calc.stage = "validated" =>
        /\ calc.out.ok <=> (calc.rows # <<>> /\ SumRowDurations(calc.rows) = 24)
        /\ ~calc.out.ok => calc.out.totalHours = R(SumRowDurations(calc.rows), 1)

\* AnalyzeFood got as far as the dose computation
AnalyzeFoodComputed == resp.op = "AnalyzeFood" /\ resp.code \notin {400, 500}

NoPeriodCovers(periods, h) ==
    \A i \in 1..Len(periods) :
        WholeHourPeriod(periods[i]) /\ ~PeriodCovers(periods[i], h)

CoveringValue(periods, field, h) ==
    LET i == CHOOSE i \in 1..Len(periods) : PeriodCovers(periods[i], h)
    IN  periods[i][field]

\* C14: for period sets that each tile the day, the carb ratio, the dosing
\* coefficient and the sensitivity that AnalyzeFood uses are each the value
\* of the period of their own set that contains the current hour.
C14_AllThreeResolvedForCurrentHour ==
    (AnalyzeFoodAnswered
        /\ TilesDay(SettingsUsed.InsulinPeriods)
        /\ TilesDay(SettingsUsed.SensitivityPeriods)
        /\ TilesDay(SettingsUsed.CarbRatioPeriods)) =>
        /\ resp.carbRatio = CoveringValue(SettingsUsed.CarbRatioPeriods, "Ratio", resp.hour)
        /\ resp.periodCoefficient
             = CoveringValue(SettingsUsed.InsulinPeriods, "Coefficient", resp.hour)
        /\ resp.sensitivity
             = CoveringValue(SettingsUsed.SensitivityPeriods, "Sensitivity", resp.hour)

\* one request served alone, from its first store call to its last
SerialApply(store, p) ==
    IF p = "S" THEN StoreSaveUserSettings(store, ConcUser, ConcSettings)
    ELSE SaveBloodSugarOn(store, ConcNow, ConcUser, ConcValue).store

RECURSIVE SerialRun(_, _)
SerialRun(store, order) ==
    IF order = <<>> THEN store
    ELSE SerialRun(SerialApply(store, Head(order)), Tail(order))

\* the orders in which the requests of this run can be served one at a time
SerialOrders ==
    LET P == {p \in Requests : inflight.req[p].pc # "absent"}
    IN  {o \in [1..Cardinality(P) -> P] : \A i, j \in DOMAIN o : o[i] = o[j] => i = j}

AllRequestsDone ==
    /\ inflight # IdleInflight
    /\ \A p \in Requests : inflight.req[p].pc \in {"done", "absent"}

\* C15: when two SaveBloodSugar requests for one user (and possibly a
\* settings save) are served concurrently, the settings stored once all of
\* them have finished are those that serving them one after the other, in
\* some order, leaves: no adjustment and no settings save is lost.
C15_ConcurrentSubmissionsSerializable ==
    AllRequestsDone =>
        \E o \in SerialOrders :
            users[ConcUser].Settings = SerialRun(inflight.start, o)[ConcUser].Settings

\* four 6-hour periods starting at 00:00, 06:00, 12:00 and 18:00
FourQuadrants(periods) ==
    /\ Len(periods) = 4
    /\ \A i \in 1..4 :
          /\ periods[i].StartTime = DefaultBaseCoefficients[i].StartTime
          /\ periods[i].Hours = R(6, 1)

\* C16: the settings a first-seen user is created with consist, in each of
\* the three period sets, of the four 6-hour quadrants 00-06, 06-12, 12-18
\* and 18-24.
C16_NewUserGetsFourQuadrants ==
    (SaveBloodSugarAnswered /\ resp.userCreated) =>
        /\ FourQuadrants(StoredSettings.InsulinPeriods)
        /\ FourQuadrants(StoredSettings.SensitivityPeriods)
        /\ FourQuadrants(StoredSettings.CarbRatioPeriods)

DeleteAnswered == resp.op = "DeleteBloodSugar"

\* some user that was there before has other settings after the step
SomeSettingsChange ==
    \E u \in DOMAIN users \cap DOMAIN users' : users'[u].Settings # users[u].Settings

\* what a step may do to the stored settings
SettingsFrame ==
    /\ SomeSettingsChange =>
          \/ resp'.op = "SaveUserSettings" /\ resp'.code = 200
          \/ /\ resp'.op = "SaveBloodSugar" /\ resp'.code = 200
             /\ resp'.tunerRan /\ resp'.coefficientsAdjusted
    /\ resp'.op \in {"DeleteBloodSugar", "AnalyzeFood", "SyncLibre",
                      "GetUserSettings", "GetBloodSugarReadings"} =>
          /\ DOMAIN users' = DOMAIN users
          /\ \A u \in DOMAIN users : users'[u].Settings = users[u].Settings

\* C18: the stored settings of a user change only in a step that is an
\* accepted settings save or a reading ingestion whose tuner step adjusted
\* the coefficients; DeleteBloodSugar, AnalyzeFood, SyncLibre and the read
\* endpoints leave every user's stored settings, and the set of users, as
\* they were.
C18_SettingsChangeOnlyBySaveOrTuner == [][SettingsFrame]_vars

\* a reading is deleted from a user whose coefficients the tuner has adjusted
\* before, and the adjusted settings are still in place
C18_Witness ==
    /\ DeleteAnswered
    /\ resp.code = 200
    /\ users[resp.userId].Settings = resp.before[resp.userId].Settings
    /\ users[resp.userId].Settings.InsulinPeriods
         \notin {st.InsulinPeriods : st \in SettingsInputs \cup {CreateDefaultSettings("")}}

\* the request named a known user and an instant that one of that user's
\* readings carries
DeleteAddressesReading ==
    /\ resp.userId \in DOMAIN resp.before
    /\ resp.timestamp.kind = "rfc3339"
    /\ \E i \in 1..Len(resp.before[resp.userId].BloodSugarReadings) :
          resp.before[resp.userId].BloodSugarReadings[i].Timestamp
              = resp.timestamp.instant

\* C17: a delete by timestamp t succeeds exactly when the user is known, the
\* timestamp is well formed and one of the user's readings has timestamp t;
\* it then removes a reading of that user with timestamp t and nothing else:
\* the user's other readings, the user's settings and every other user stay
\* as they were.  In every other case it answers with an error and the store
\* is unchanged.
C17_DeleteRemovesOnlyAddressedReading ==
    DeleteAnswered =>
        IF DeleteAddressesReading
        THEN /\ resp.code = 200
             /\ DOMAIN users = DOMAIN resp.before
             /\ \A u \in DOMAIN users \ {resp.userId} : users[u] = resp.before[u]
             /\ users[resp.userId].Settings = resp.before[resp.userId].Settings
             /\ LET old == resp.before[resp.userId].BloodSugarReadings
                IN  \E i \in 1..Len(old) :
                       /\ old[i].Timestamp = resp.timestamp.instant
                       /\ users[resp.userId].BloodSugarReadings
                            = SubSeq(old, 1, i - 1) \o SubSeq(old, i + 1, Len(old))
        ELSE /\ resp.code # 200
             /\ users = resp.before

\* a reading is deleted from between two others while a second user holds a
\* reading with the same timestamp
C17_Witness ==
    /\ DeleteAnswered
    /\ resp.code = 200
    /\ Len(resp.before[resp.userId].BloodSugarReadings) = 3
    /\ Len(users[resp.userId].BloodSugarReadings) = 2
    /\ users[resp.userId].BloodSugarReadings[1].Timestamp # resp.timestamp.instant
    /\ \E u \in DOMAIN users \ {resp.userId} :
          \E j \in 1..Len(users[u].BloodSugarReadings) :
              users[u].BloodSugarReadings[j].Timestamp = resp.timestamp.instant

PeriodWellFormed(p, field) ==
    /\ StartHourOf(p.StartTime) \in 0..23
    /\ RGt(p.Hours, Zero)
    /\ RGt(p[field], Zero)

PeriodsWellFormed(periods, field) ==
    \A i \in 1..Len(periods) : PeriodWellFormed(periods[i], field)

\* C19: every period of every stored period set has a start hour in [0,24),
\* a duration greater than 0 and a coefficient, sensitivity or ratio greater
\* than 0, whatever settings saves and tuner adjustments came before.
C19_StoredPeriodsWellFormed ==
    \A u \in DOMAIN users :
        /\ PeriodsWellFormed(users[u].Settings.InsulinPeriods, "Coefficient")
        /\ PeriodsWellFormed(users[u].Settings.SensitivityPeriods, "Sensitivity")
        /\ PeriodsWellFormed(users[u].Settings.CarbRatioPeriods, "Ratio")

ServiceCreated == service.stage \in {"internal", "preference"}

\* C20: NewService takes the first provider with a configured key in the
\* order Gemini, OpenAI, Grok: with a Gemini key the provider is Gemini,
\* OpenAI is chosen only without a Gemini key, Grok only without both.
C20_ProviderOrderGeminiOpenAIGrok ==
    ServiceCreated =>
        /\ service.cfg.GeminiToken # "" => service.out.providerName = "gemini"
        /\ service.out.providerName = "openai" => service.cfg.GeminiToken = ""
        /\ service.out.providerName = "grok" =>
               service.cfg.GeminiToken = "" /\ service.cfg.OpenAIToken = ""

\* the period's declared range contains the hour: startHour <= hour < startHour + hours
HourInDeclaredRange(p, hour) ==
    /\ StartHourOf(p.StartTime) <= hour
    /\ RLt(R(hour, 1), RAdd(R(StartHourOf(p.StartTime), 1), p.Hours))

\* no hour of the day lies in the declared range of two periods of the list
NonOverlapping(periods) ==
    \A i, j \in 1..Len(periods) :
        i # j => \A h \in 0..23 : ~(HourInDeclaredRange(periods[i], h)
                                    /\ HourInDeclaredRange(periods[j], h))

\* the same periods in every order
Reorderings(periods) ==
    {[i \in 1..Len(periods) |-> periods[f[i]]] :
        f \in {g \in [1..Len(periods) -> 1..Len(periods)] :
                  \A a, b \in 1..Len(periods) : a # b => g[a] # g[b]}}

PeriodsResolved == calc.stage = "resolved"

\* C21: the scan goes through the dosing-coefficient periods in the stored
\* order and answers the coefficient of the first period with
\* startHour <= hour < startHour + hours; for a set without overlaps the
\* answer is the same in every order of the periods.
C21_FirstMatchInStoredOrderWins ==
    PeriodsResolved =>
        /\ \A i \in 1..Len(calc.periods) :
              (/\ HourInDeclaredRange(calc.periods[i], calc.hour)
               /\ \A j \in 1..(i - 1) : ~HourInDeclaredRange(calc.periods[j], calc.hour))
                  => calc.out = calc.periods[i].Coefficient
        /\ NonOverlapping(calc.periods) =>
              \A q \in Reorderings(calc.periods) :
                  ResolvePeriodCoefficient(q, calc.hour) = calc.out

\* exactly the four 6-hour periods 00:00, 06:00, 12:00, 18:00 in that order
ExactQuadrantPeriods(periods) ==
    /\ Len(periods) = 4
    /\ <<periods[1].StartTime, periods[2].StartTime,
         periods[3].StartTime, periods[4].StartTime>> = <<T0000, T0600, T1200, T1800>>
    /\ \A i \in 1..4 : periods[i].Hours = R(6, 1)

\* C22: the quadrant conversion round-trips: a quadrant set converted to
\* periods and back is the same quadrant set, and a period set that is exactly
\* the four 6-hour periods 00:00, 06:00, 12:00, 18:00 in that order converted
\* to quadrants and back is the same period set.
C22_QuadrantConversionRoundTrips ==
    /\ calc.stage = "quadrantsBack" => calc.out = calc.in
    /\ (calc.stage = "periodsBack" /\ ExactQuadrantPeriods(calc.in)) => calc.out = calc.in

\* a quadrant set without a coefficient of 1.0 that came back unchanged
C22_Witness ==
    /\ calc.stage = "quadrantsBack"
    /\ \A q \in {"Morning", "Afternoon", "Evening", "Night"} : calc.in[q] # R(1, 1)
    /\ calc.in.Night # calc.in.Morning
    /\ calc.out = calc.in

\* the quadrant whose period, as ConvertToInsulinPeriods lays the quadrants
\* out over the day, contains the hour
PeriodQuadrantOf(hour) == ScanInsulinPeriods(ConvertToInsulinPeriods(BucketNameOf), hour)

\* C23: the tuner's buckets agree with the periods it writes back: a reading
\* at hour h is bucketed in, and GetTimeBasedCoefficient answers for h, the
\* quadrant whose period in ConvertToInsulinPeriods contains h, so a
\* coefficient is adjusted only from readings taken within its own period.
C23_BucketsAgreeWithWrittenPeriods ==
    (TunerRan /\ Len(tuner.readings) >= 5) =>
        /\ \A i \in 1..Len(tuner.readings) :
              LET t == tuner.readings[i].Timestamp
              IN  /\ BucketOf(HourOf(t)) = PeriodQuadrantOf(HourOf(t))
                  /\ GetTimeBasedCoefficient(t, BucketNameOf) = PeriodQuadrantOf(HourOf(t))
        /\ \A q \in Quadrants :
              (tuner.stage = "adjusted" /\ tuner.out[q] # tuner.current[q]) =>
                  \E i \in 1..Len(tuner.readings) :
                      PeriodQuadrantOf(HourOf(tuner.readings[i].Timestamp)) = BucketNameOf[q]

\* the run started without the user in the store and without a settings save
TwoSubmissionsForNewUser ==
    /\ AllRequestsDone
    /\ inflight.start = <<>>
    /\ inflight.req["S"].pc = "absent"

\* C24: when two SaveBloodSugar requests for the same user, who does not
\* exist yet, are served concurrently, both are answered 200 and both
\* readings are in the user's stored history.
C24_BothSubmissionsForNewUserSucceed ==
    TwoSubmissionsForNewUser =>
        /\ \A p \in Submissions : inflight.req[p].code = 200
        /\ ConcUser \in DOMAIN users
        /\ Len(users[ConcUser].BloodSugarReadings) = Cardinality(Submissions)

\* C25: every user the handlers have stored has at least one period in each
\* of the three period sets of the settings that GetUser hands to the
\* handlers, so AnalyzeFood never reads CarbRatioPeriods[0] or
\* SensitivityPeriods[0] of an empty set.
C25_StoredUsersHaveAllPeriodSets ==
    /\ \A u \in DOMAIN users :
          /\ Len(StoreGetUser(users, u).user.Settings.InsulinPeriods) >= 1
          /\ Len(StoreGetUser(users, u).user.Settings.SensitivityPeriods) >= 1
          /\ Len(StoreGetUser(users, u).user.Settings.CarbRatioPeriods) >= 1
    /\ \A u \in DOMAIN collection :
          /\ Len(MongoGetUser(collection, u).user.Settings.InsulinPeriods) >= 1
          /\ Len(MongoGetUser(collection, u).user.Settings.SensitivityPeriods) >= 1
          /\ Len(MongoGetUser(collection, u).user.Settings.CarbRatioPeriods) >= 1
    /\ resp.op = "AnalyzeFood" => resp.code # 0

NewestFirstHeld(readings) ==
    \A i, j \in 1..Len(readings) :
        i < j => readings[i].Timestamp >= readings[j].Timestamp

\* result is the n most recent of the readings at or after startDate (all of
\* them for n = 0), the newest first
MostRecentOf(result, readings, n, startDate) ==
    LET q    == {i \in 1..Len(readings) : readings[i].Timestamp >= startDate}
        want == IF n > 0 /\ Cardinality(q) > n THEN n ELSE Cardinality(q)
    IN  /\ Len(result) = want
        /\ NewestFirstHeld(result)
        /\ \E f \in [1..Len(result) -> q] :
              /\ \A a, b \in 1..Len(result) : a # b => f[a] # f[b]
              /\ \A k \in 1..Len(result) : readings[f[k]] = result[k]
              /\ \A i \in q :
                    (\A k \in 1..Len(result) : f[k] # i) =>
                        \A k \in 1..Len(result) :
                            readings[i].Timestamp <= result[k].Timestamp

MemoryGetRecentAnswered ==
    resp.op = "GetRecentBloodSugarReadings" /\ resp.memoryErr = ""

\* C26: in the in-memory store a user's readings are held newest first after
\* any sequence of AddBloodSugarReading and DeleteBloodSugarReading calls made
\* at non-decreasing times, so GetRecentBloodSugarReadings with limit n
\* answers the n most recent readings at or after startDate, and the reading
\* AnalyzeFood corrects with (limit 1) is the user's latest.
C26_MemoryReadingsNewestFirst ==
    /\ \A u \in DOMAIN users : NewestFirstHeld(users[u].BloodSugarReadings)
    /\ MemoryGetRecentAnswered =>
          MostRecentOf(resp.memory, users[resp.userId].BloodSugarReadings,
                       resp.limit, resp.startDate)
    /\ (AnalyzeFoodAnswered /\ resp.userId \in DOMAIN users) =>
          MostRecentOf(resp.lastReading, users[resp.userId].BloodSugarReadings,
                       1, now - WeekHours)

\* limit 1 answered with the one reading of the latest hour, while an older
\* reading at or after startDate and one before startDate are held as well
C26_Witness ==
    /\ MemoryGetRecentAnswered
    /\ resp.limit = 1
    /\ resp.startDate = 1
    /\ Len(users[resp.userId].BloodSugarReadings) = 3
    /\ users[resp.userId].BloodSugarReadings[1].Timestamp = 2
    /\ users[resp.userId].BloodSugarReadings[2].Timestamp = 1
    /\ users[resp.userId].BloodSugarReadings[3].Timestamp = 0
    /\ resp.memory = <<users[resp.userId].BloodSugarReadings[1]>>

\* C27: after the same sequence of CreateUser, AddBloodSugarReading and
\* DeleteBloodSugarReading calls on the in-memory store and on the MongoDB
\* store, GetRecentBloodSugarReadings(user, limit, startDate) answers the
\* same readings in the same order from both.
C27_StoresAnswerSameReadings ==
    resp.op = "GetRecentBloodSugarReadings" => resp.memory = resp.mongo

\* C28: every glucose reading the handlers have stored has a value greater
\* than 0, whether it came in through SaveBloodSugar or through the manual
\* entry of SyncLibre.
C28_StoredReadingsArePositive ==
    \A u \in DOMAIN users :
        \A i \in 1..Len(users[u].BloodSugarReadings) :
            RGt(users[u].BloodSugarReadings[i].Value, Zero)

CharsOf(s) == {s[i] : i \in 1..Len(s)}

\* C29: getMaskedMongoURI never reveals credentials: two URIs that differ
\* only in the username or the password (a password may contain '@') are
\* masked to the same string, and no character of a password, '@' aside,
\* occurs in it.
C29_MaskedURIHidesCredentials ==
    calc.stage = "masked" =>
        /\ calc.first.out = calc.second.out
        /\ (CharsOf(calc.first.password) \ {"@"}) \cap CharsOf(calc.first.out) = {}
        /\ (CharsOf(calc.second.password) \ {"@"}) \cap CharsOf(calc.second.out) = {}

\* whether position i of the text lies outside double-quoted strings: the
\* quotes before it that are not escaped come in pairs
RECURSIVE QuoteState(_, _, _, _)
QuoteState(text, i, inString, escape) ==
    IF i = 0 THEN [inString |-> inString, escape |-> escape]
    ELSE LET before == QuoteState(text, i - 1, inString, escape)
             char   == text[i]
         IN  [inString |-> IF char = "\"" /\ ~before.escape THEN ~before.inString
                           ELSE before.inString,
              escape   |-> char = "\\" /\ ~before.escape]

OutsideString(text, i) == ~QuoteState(text, i, FALSE, FALSE).inString

\* braces opened minus braces closed in text[s..e], braces in strings aside
RECURSIVE Depth(_, _, _)
Depth(text, s, e) ==
    IF e < s THEN 0
    ELSE Depth(text, s, e - 1)
            + (IF ~OutsideString(text, e) THEN 0
               ELSE IF text[e] = "{" THEN 1
               ELSE IF text[e] = "}" THEN -1
               ELSE 0)

\* the first '{' outside strings, and the '}' that closes it
FirstOpen(text) ==
    LET opens == {i \in 1..Len(text) : text[i] = "{" /\ OutsideString(text, i)}
    IN  IF opens = {} THEN 0 ELSE CHOOSE i \in opens : \A j \in opens : i <= j

MatchingClose(text, s) ==
    LET closes == {e \in s..Len(text) : Depth(text, s, e) = 0}
    IN  IF closes = {} THEN 0 ELSE CHOOSE e \in closes : \A f \in closes : e <= f

HasObject(text) == FirstOpen(text) # 0 /\ MatchingClose(text, FirstOpen(text)) # 0

\* C30: for a text that contains a brace-balanced object (braces inside
\* double-quoted strings and escaped quotes aside), extractJSONFromText
\* answers the text from the first top-level '{' to its matching '}',
\* whatever comes before it, a stray '}' included; it answers an error only
\* when the text contains no such object.
C30_ExtractsFirstTopLevelObject ==
    calc.stage = "extracted" =>
        /\ HasObject(calc.text) =>
              /\ calc.out.ok
              /\ calc.out.json = SubSeq(calc.text, FirstOpen(calc.text),
                                        MatchingClose(calc.text, FirstOpen(calc.text)))
        /\ ~calc.out.ok => ~HasObject(calc.text)

=============================================================================
